---------------------------- MODULE Spec2Model ----------------------------
(***************************************************************************)
(* A model of the document-to-template conversion engine of server.js:     *)
(*   findFullSection        the balanced region finder                     *)
(*   convertHTMLToTemplate  the markup cloner                              *)
(*   extractResumeData      the resume extractor                           *)
(*   getCompiledTemplate    the cache of compiled templates                *)
(* JavaScript strings are TLA+ strings; offsets are 0-based as in the      *)
(* source (offset i = i characters lie before it).  Regular expressions    *)
(* are data, matched by a backtracking matcher with the priorities of the  *)
(* JavaScript engine (first alternative first, greedy before lazy stop).   *)
(* Characters outside ASCII are written with ASCII stand-ins that no       *)
(* pattern of the function they occur in mentions.                         *)
(***************************************************************************)
EXTENDS Integers, Sequences, FiniteSets, TLC

VARIABLES
  fsrc,      \* findFullSection: the source argument
  fopen,     \* findFullSection: the openTagRegex argument
  find,      \* findFullSection: its locals, its position (pc) and its result (res)
  text,      \* extractResumeData: the text argument
  rpc,       \* extractResumeData: the stage the call is at
  lines,     \* extractResumeData: the trimmed non-empty lines
  data,      \* extractResumeData: the record being filled, returned at the end
  proj,      \* extractResumeData: the locals of the project loop
  html,      \* convertHTMLToTemplate: the html argument
  origin,    \* convertHTMLToTemplate: the origin argument
  tpl,       \* convertHTMLToTemplate: the template being built
  detected,  \* convertHTMLToTemplate: the regions marked so far
  origPersonName,  \* convertHTMLToTemplate: the text of the first h1
  cpc,       \* convertHTMLToTemplate: the stage the call is at
  ret,       \* convertHTMLToTemplate: the value returned
  returned,  \* the calls that returned so far: function, arguments, result
  calls,     \* the number of calls made so far
  templateCache,  \* getCompiledTemplate: the Map of the module
  pending,   \* getCompiledTemplate: the calls, each with its position and value
  reads      \* getCompiledTemplate: how often the files of a template were read

fvars == <<fsrc, fopen, find>>
rvars == <<text, rpc, lines, data, proj>>
cvars == <<html, origin, tpl, detected, origPersonName, cpc, ret>>
hvars == <<returned, calls>>
tvars == <<templateCache, pending, reads>>
vars == <<fvars, rvars, cvars, hvars, tvars>>

----------------------------------------------------------------------------
(* Characters and strings                                                  *)

BULLET == "~"   \* stands for U+2022
ENDASH == "^"   \* stands for U+2013
EMDASH == "%"   \* stands for U+2014

Chars(str) == { SubSeq(str, k, k) : k \in 1..Len(str) }
LowerAlpha == "abcdefghijklmnopqrstuvwxyz"
UpperAlpha == "ABCDEFGHIJKLMNOPQRSTUVWXYZ"
Lower == Chars(LowerAlpha)
Upper == Chars(UpperAlpha)
Digit == Chars("0123456789")
Word == Lower \cup Upper \cup Digit \cup {"_"}
Space == {" ", "\n", "\t", "\r"}
ToLowerMap ==
  [c \in Upper |-> LET k == CHOOSE j \in 1..26 : SubSeq(UpperAlpha, j, j) = c
                   IN SubSeq(LowerAlpha, k, k)]
ToUpperMap ==
  [c \in Lower |-> LET k == CHOOSE j \in 1..26 : SubSeq(LowerAlpha, j, j) = c
                   IN SubSeq(UpperAlpha, k, k)]
LowerCh(c) == IF c \in Upper THEN ToLowerMap[c] ELSE c
UpperCh(c) == IF c \in Lower THEN ToUpperMap[c] ELSE c

Min(a, b) == IF a < b THEN a ELSE b
Max(a, b) == IF a > b THEN a ELSE b
MinOf(S) == CHOOSE a \in S : \A b \in S : a <= b
MaxOf(S) == CHOOSE a \in S : \A b \in S : a >= b

\* s.substring(a, b) / s.slice(a, b) for 0 <= a
substring(s, a, b) == SubSeq(s, Min(a, Len(s)) + 1, Min(b, Len(s)))
charAt(s, i) == IF i >= 0 /\ i < Len(s) THEN SubSeq(s, i + 1, i + 1) ELSE ""
startsWithAt(s, p, i) == i + Len(p) <= Len(s) /\ SubSeq(s, i + 1, i + Len(p)) = p
startsWith(s, p) == startsWithAt(s, p, 0)
endsWith(s, p) == Len(p) <= Len(s) /\ SubSeq(s, Len(s) - Len(p) + 1, Len(s)) = p
\* s.indexOf(p): -1 when absent
indexOf(s, p) ==
  LET first(at) == IF at = {} THEN -1 ELSE MinOf(at)
  IN first({i \in 0..(Len(s) - Len(p)) : startsWithAt(s, p, i)})
includes(s, p) == \E i \in 0..(Len(s) - Len(p)) : startsWithAt(s, p, i)
\* The replacement string r of String.prototype.replace with its patterns
\* expanded: $$ is "$", $& the matched text m0, $' the text after the match,
\* $n the n-th of the pattern's groups; any other "$" stands for itself.
\* (The pattern of "$" and a grave accent, the text before the match, is
\* left out: no input holds a grave accent.)
expandReplacement(r, m0, post, groups) ==
  LET RECURSIVE f(_)
      dollarAt(p) ==
        LET first(at) == IF at = {} THEN -1 ELSE MinOf(at)
        IN first({i \in p..(Len(r) - 1) : SubSeq(r, i + 1, i + 1) = "$"})
      digit(c) == CHOOSE n \in 0..9 : SubSeq("0123456789", n + 1, n + 1) = c
      sub(p, c) ==
        IF c = "$" THEN "$" \o f(p + 2)
        ELSE IF c = "&" THEN m0 \o f(p + 2)
        ELSE IF c = "'" THEN post \o f(p + 2)
        ELSE IF c \in Digit /\ digit(c) >= 1 /\ digit(c) <= Len(groups)
             THEN groups[digit(c)] \o f(p + 2)
        ELSE "$" \o f(p + 1)
      at(p, d) == IF d < 0 THEN substring(r, p, Len(r))
                  ELSE substring(r, p, d) \o sub(d, charAt(r, d + 1))
      f(p) == at(p, dollarAt(p))
  IN f(0)
\* s.replace(p, r) with a string pattern: the first occurrence only
replaceStr(s, p, r) ==
  LET put(i) ==
        IF i < 0 THEN s
        ELSE substring(s, 0, i)
               \o expandReplacement(r, p, substring(s, i + Len(p), Len(s)), <<>>)
               \o substring(s, i + Len(p), Len(s))
  IN put(indexOf(s, p))
toLowerCase(s) ==
  LET RECURSIVE low(_, _)
      low(a, b) == IF a > b THEN ""
                   ELSE IF a = b THEN LowerCh(SubSeq(s, a, a))
                   ELSE low(a, (a + b) \div 2) \o low((a + b) \div 2 + 1, b)
  IN low(1, Len(s))
trim(s) ==
  LET cut(keep) == IF keep = {} THEN "" ELSE SubSeq(s, MinOf(keep), MaxOf(keep))
  IN cut({k \in 1..Len(s) : SubSeq(s, k, k) \notin Space})
\* arr.join(sep)
join(arr, sep) ==
  LET RECURSIVE j(_)
      j(k) == IF k > Len(arr) THEN ""
              ELSE IF k = Len(arr) THEN arr[k] ELSE arr[k] \o sep \o j(k + 1)
  IN j(1)
\* arr.flat(): the sequences of arr, one after the other
join2(arr) ==
  LET RECURSIVE j(_)
      j(k) == IF k > Len(arr) THEN <<>> ELSE arr[k] \o j(k + 1)
  IN j(1)
SelectSeq2(arr, keep) ==
  LET RECURSIVE f(_)
      f(k) == IF k > Len(arr) THEN <<>>
              ELSE IF keep[k] THEN <<arr[k]>> \o f(k + 1) ELSE f(k + 1)
  IN f(1)

----------------------------------------------------------------------------
(* Regular expressions.  A pattern is a sequence of nodes; RegExp(k, ci)   *)
(* is the compiled object.  With the i flag the subject is matched in      *)
(* lower case against lower-cased literals and case-closed classes.        *)

Lit(str) == [t |-> "lit", s |-> str]
Set(S) == [t |-> "set", cs |-> S, neg |-> FALSE]
NSet(S) == [t |-> "set", cs |-> S, neg |-> TRUE]
AnyCh == [t |-> "set", cs |-> {}, neg |-> TRUE]                   \* [\s\S]
Alt(as) == [t |-> "alt", as |-> as]                             \* a|b|c, each a sequence
Rep(body, lo, hi, greedy) == [t |-> "rep", b |-> body, min |-> lo, max |-> hi, g |-> greedy]
Star(n) == Rep(<<n>>, 0, -1, TRUE)                              \* x*
Plus(n) == Rep(<<n>>, 1, -1, TRUE)                              \* x+
LazyStar(n) == Rep(<<n>>, 0, -1, FALSE)                         \* x*?
Opt(body) == Rep(body, 0, 1, TRUE)                              \* (...)?
Cap(k, body) == [t |-> "cap", n |-> k, b |-> body]              \* capture group k
Ref(k) == [t |-> "ref", n |-> k]                                \* \k
Look(body) == [t |-> "look", b |-> body, neg |-> FALSE]         \* (?=...)
NLook(body) == [t |-> "look", b |-> body, neg |-> TRUE]         \* (?!...)
WB == [t |-> "wb"]                                              \* \b
BOL == [t |-> "bol"]                                            \* ^
EOL == [t |-> "eol"]                                            \* $
Words(ws) == Alt([j \in 1..Len(ws) |-> <<Lit(ws[j])>>])         \* (?:w1|w2|...)

RECURSIVE FoldCase(_)
FoldCase(k) ==
  [j \in 1..Len(k) |->
     LET n == k[j] IN
     CASE n.t = "lit" -> [n EXCEPT !.s = toLowerCase(n.s)]
       [] n.t = "set" -> [n EXCEPT !.cs = n.cs \cup {LowerCh(c) : c \in n.cs}]
       [] n.t = "alt" -> [n EXCEPT !.as = [a \in 1..Len(n.as) |-> FoldCase(n.as[a])]]
       [] n.t \in {"rep", "cap", "look"} -> [n EXCEPT !.b = FoldCase(n.b)]
       [] OTHER -> n]
RegExp(k, ci) == [k |-> IF ci THEN FoldCase(k) ELSE k, ci |-> ci]

NoCaps == << <<-1, -1>>, <<-1, -1>>, <<-1, -1>> >>
MatchFail == [ok |-> FALSE, e |-> 0, caps |-> NoCaps]
IsWordAt(s, i) == i >= 1 /\ i <= Len(s) /\ SubSeq(s, i, i) \in Word

\* The match of the node sequence k at offset i of s: the first one in the
\* engine's backtracking order.
RECURSIVE MatchK(_, _, _, _)
MatchK(k, s, i, caps) ==
  IF k = <<>> THEN [ok |-> TRUE, e |-> i, caps |-> caps]
  ELSE
    LET n == Head(k)
        r == Tail(k)
        RECURSIVE alt(_)
        alt(j) == IF j > Len(n.as) THEN MatchFail
                  ELSE LET m == MatchK(n.as[j] \o r, s, i, caps)
                       IN IF m.ok THEN m ELSE alt(j + 1)
    IN
    CASE n.t = "lit" ->
           IF startsWithAt(s, n.s, i) THEN MatchK(r, s, i + Len(n.s), caps) ELSE MatchFail
      [] n.t = "set" ->
           IF i < Len(s) /\ ((SubSeq(s, i + 1, i + 1) \in n.cs) # n.neg)
           THEN MatchK(r, s, i + 1, caps) ELSE MatchFail
      [] n.t = "wb" ->
           IF IsWordAt(s, i) # IsWordAt(s, i + 1) THEN MatchK(r, s, i, caps) ELSE MatchFail
      [] n.t = "rep" /\ Len(n.b) = 1 /\ n.b[1].t = "set" ->
           \* x*, x+, x{a,b}, x*? of one character class: the class takes the
           \* characters i..e, e tried from the longest run down (greedy) or
           \* from the shortest up (lazy); the first e the rest matches at wins.
           LET fits(p) == (SubSeq(s, p + 1, p + 1) \in n.b[1].cs) # n.b[1].neg
               runEnd(limit, stops) == IF stops = {} THEN limit ELSE MinOf(stops)
               run(limit) == runEnd(limit, {p \in i..(limit - 1) : ~fits(p)})
               tried(e) == [e |-> e, m |-> MatchK(r, s, e, caps)]
               pick(ms) == IF ms = {} THEN MatchFail
                           ELSE (CHOOSE t \in ms : \A o \in ms :
                                    IF n.g THEN t.e >= o.e ELSE t.e <= o.e).m
               from(last) == pick({t \in {tried(e) : e \in (i + n.min)..last} : t.m.ok})
           IN from(run(IF n.max < 0 THEN Len(s) ELSE Min(i + n.max, Len(s))))
      [] n.t = "rep" ->
           LET again == [n EXCEPT !.min = Max(n.min - 1, 0),
                                  !.max = IF n.max < 0 THEN -1 ELSE n.max - 1]
               pick(more, stop) ==
                 IF n.min > 0 THEN more
                 ELSE IF n.max = 0 THEN stop
                 ELSE IF n.g THEN (IF more.ok THEN more ELSE stop)
                 ELSE (IF stop.ok THEN stop ELSE more)
           IN pick(MatchK(n.b \o <<again>> \o r, s, i, caps), MatchK(r, s, i, caps))
      [] n.t = "alt" -> alt(1)
      [] n.t = "cap" -> MatchK(n.b \o <<[t |-> "end", n |-> n.n, from |-> i]>> \o r, s, i, caps)
      [] n.t = "end" -> MatchK(r, s, i, [caps EXCEPT ![n.n] = <<n.from, i>>])
      [] n.t = "ref" ->
           LET g == SubSeq(s, caps[n.n][1] + 1, caps[n.n][2])
           IN IF startsWithAt(s, g, i) THEN MatchK(r, s, i + Len(g), caps) ELSE MatchFail
      [] n.t = "look" ->
           IF MatchK(n.b, s, i, caps).ok # n.neg THEN MatchK(r, s, i, caps) ELSE MatchFail
      [] n.t = "bol" -> IF i = 0 THEN MatchK(r, s, i, caps) ELSE MatchFail
      [] n.t = "eol" -> IF i = Len(s) THEN MatchK(r, s, i, caps) ELSE MatchFail

\* re.exec(s) with re.lastIndex = from: the leftmost match at or after from.
\* The result holds the offsets; m[0] and m[n] are read with M0 and G.
NoMatch == [ok |-> FALSE, index |-> -1, e |-> -1, caps |-> NoCaps]
execOn(re, sl, from) ==
  LET at(i, m) == [ok |-> m.ok, index |-> i, e |-> m.e, caps |-> m.caps]
      first(ms) == IF ms = {} THEN NoMatch
                   ELSE CHOOSE m \in ms : \A o \in ms : m.index <= o.index
  IN first({m \in {at(i, MatchK(re.k, sl, i, NoCaps)) : i \in from..Len(sl)} : m.ok})
subject(re, s) == IF re.ci THEN toLowerCase(s) ELSE s
exec(re, s, from) == execOn(re, subject(re, s), from)
match(s, re) == exec(re, s, 0)                  \* s.match(re), re without g
test(re, s) == exec(re, s, 0).ok                \* re.test(s), re without g
M0(s, m) == substring(s, m.index, m.e)          \* m[0]
Undefined == "\\undefined"
G(s, m, n) == IF m.caps[n][1] < 0 THEN Undefined
              ELSE substring(s, m.caps[n][1], m.caps[n][2])   \* m[n]

\* [...s.matchAll(re)], re with g: the successive matches, none overlapping
\* (after an empty match the scan moves on by one).
matchAll(s, re) ==
  LET sl == subject(re, s)
      RECURSIVE from(_)
      from(p) == LET rest(m) == IF ~m.ok THEN <<>>
                                 ELSE <<m>> \o from(IF m.e = m.index THEN m.e + 1 ELSE m.e)
                 IN rest(execOn(re, sl, p))
  IN from(0)
\* The subject with each match i replaced by rep[i].
splice(s, ms, rep) ==
  LET RECURSIVE f(_, _)
      f(j, p) == IF j > Len(ms) THEN substring(s, p, Len(s))
                 ELSE substring(s, p, ms[j].index) \o rep[j] \o f(j + 1, ms[j].e)
  IN f(1, 0)
\* The number of capture groups of a pattern
RECURSIVE CapCount(_)
CapCount(k) ==
  LET inside(n) == CASE n.t = "cap" -> 1 + CapCount(n.b)
                     [] n.t \in {"rep", "look"} -> CapCount(n.b)
                     [] n.t = "alt" -> CapCount(join2(n.as))
                     [] OTHER -> 0
  IN IF k = <<>> THEN 0 ELSE inside(Head(k)) + CapCount(Tail(k))
\* The replacement of the match m of re in s by the string r
replacement(s, re, m, r) ==
  expandReplacement(r, M0(s, m), substring(s, m.e, Len(s)),
                    [n \in 1..CapCount(re.k) |->
                       IF m.caps[n][1] < 0 THEN "" ELSE G(s, m, n)])
\* s.replace(re, r), r a string: every match with g, else the first
replaceAll(s, re, r) ==
  LET fill(ms) == splice(s, ms, [j \in 1..Len(ms) |-> replacement(s, re, ms[j], r)])
  IN fill(matchAll(s, re))
replaceFirst(s, re, r) ==
  LET put(m) == IF m.ok THEN substring(s, 0, m.index) \o replacement(s, re, m, r)
                               \o substring(s, m.e, Len(s))
                ELSE s
  IN put(match(s, re))
\* s.split(re): the pieces between the matches (no pattern here matches "")
split(s, re) ==
  LET pieces(ms) ==
        [j \in 1..(Len(ms) + 1) |->
           substring(s, IF j = 1 THEN 0 ELSE ms[j - 1].e,
                        IF j > Len(ms) THEN Len(s) ELSE ms[j].index)]
  IN pieces(matchAll(s, re))

----------------------------------------------------------------------------
(* findFullSection(source, openTagRegex)                                   *)

\* /<(?:section|div)[^>]*(?:id|class)=["'][^"']*(?:w1|w2|...)[^"']*["'][^>]*>/gi
classedSection(ws) ==
  RegExp(<<Lit("<"), Words(<<"section", "div">>), Star(NSet({">"})),
           Words(<<"id", "class">>), Lit("="), Set({"\"", "'"}), Star(NSet({"\"", "'"})),
           Words(ws), Star(NSet({"\"", "'"})), Set({"\"", "'"}), Star(NSet({">"})), Lit(">")>>,
         TRUE)
aboutPattern == classedSection(<<"about", "bio", "intro", "summary">>)
\* new RegExp(`<${name}[^>]*>`, 'gi')
openTagOf(name) == RegExp(<<Lit("<"), Lit(name), Star(NSet({">"})), Lit(">")>>, TRUE)
\* /^<li[^>]*>/gi, /^<article[^>]*>/gi, /^<div[^>]*>/gi
openTagAtStart(name) == RegExp(<<BOL, Lit("<"), Lit(name), Star(NSet({">"})), Lit(">")>>, TRUE)

\* (openTag.match(/^<(\w+)/i) || [])[1]
tagNameOf(openTag) ==
  LET name(m) == IF m.ok THEN G(openTag, m, 1) ELSE Undefined
  IN name(match(openTag, RegExp(<<BOL, Lit("<"), Cap(1, <<Plus(Set(Word))>>)>>, TRUE)))
\* A variant of scanRegExp (below) without the lookahead: the scan also stops
\* at the tags of a longer name that starts with the tag name.
scanRegExpAnyLongerName(tagName) ==
  RegExp(<<Lit("<"), Cap(1, <<Opt(<<Lit("/")>>)>>), Lit(tagName),
           Star(NSet({">"})), Lit(">")>>,
         TRUE)
\* new RegExp(`<(/?)${tagName}(?=\\s|>)[^>]*>`, 'gi')
scanRegExp(tagName) ==
  RegExp(<<Lit("<"), Cap(1, <<Opt(<<Lit("/")>>)>>), Lit(tagName),
           Look(<<Alt(<< <<Set(Space)>>, <<Lit(">")>> >>)>>), Star(NSet({">"})), Lit(">")>>,
         TRUE)

Null == [null |-> TRUE]
\* A call that returned: the function, its arguments, the value it gave
Returns(fn, args, result) == [fn |-> fn, args |-> args, result |-> result]
FindDone(r) == [pc |-> "done", res |-> r]

\* Lines 766-777: the region returned when the depth is back at 0
Region(source, st, hit) ==
  [null |-> FALSE,
   full |-> substring(source, st.startIdx, hit.e),
   inner |-> substring(source, st.startIdx + Len(st.openTag), hit.index),
   start |-> st.startIdx, end |-> hit.e,
   openTag |-> st.openTag, closeTag |-> M0(source, hit)]

\* Lines 752-761: the opener's first match, the tag name, the scan's start.
findOpen(source, openTagRegex) ==
  LET begin(m, openTag, tagName) ==
        IF ~m.ok THEN FindDone(Null)
        ELSE IF tagName = Undefined THEN FindDone(Null)
        ELSE [pc |-> "scan", res |-> Null, startIdx |-> m.index, openTag |-> openTag,
              tagName |-> tagName, depth |-> 1, lastIndex |-> m.index + Len(openTag)]
      opened(m, openTag) == begin(m, openTag, tagNameOf(openTag))
      found(m) == opened(m, M0(source, m))
  IN found(exec(openTagRegex, source, 0))

\* A variant of findScan (below) in which
\* the depth is not raised on a nested opening tag: the first closing tag ends the region.
findScanNoNesting(source, st) ==
  LET turn(hit, hit0) ==
        IF ~hit.ok THEN FindDone(Null)
        ELSE IF endsWith(hit0, "/>") \/ G(source, hit, 1) # "/"
             THEN [st EXCEPT !.lastIndex = hit.e]
        ELSE FindDone(Region(source, st, hit))
      read(hit) == turn(hit, M0(source, hit))
  IN read(exec(scanRegExp(st.tagName), source, st.lastIndex))

\* A variant of findScan (below) without the guard for self-closing tags: a
\* tag that ends in /> raises the depth like an opening tag.
findScanCountsSelfClosing(source, st) ==
  LET turn(hit, depth) ==
        IF ~hit.ok THEN FindDone(Null)
        ELSE IF depth = 0 THEN FindDone(Region(source, st, hit))
        ELSE [st EXCEPT !.depth = depth, !.lastIndex = hit.e]
      read(hit) == turn(hit, IF G(source, hit, 1) = "/" THEN st.depth - 1 ELSE st.depth + 1)
  IN read(exec(scanRegExp(st.tagName), source, st.lastIndex))

\* Lines 763-778: one turn of the while loop.
findScan(source, st) ==
  LET turn(hit, hit0, depth) ==
        IF ~hit.ok THEN FindDone(Null)
        ELSE IF endsWith(hit0, "/>") THEN [st EXCEPT !.lastIndex = hit.e]
        ELSE IF depth = 0 THEN FindDone(Region(source, st, hit))
        ELSE [st EXCEPT !.depth = depth, !.lastIndex = hit.e]
      counted(hit, hit0) ==
        turn(hit, hit0, IF G(source, hit, 1) = "/" THEN st.depth - 1 ELSE st.depth + 1)
      read(hit) == counted(hit, M0(source, hit))
  IN read(exec(scanRegExp(st.tagName), source, st.lastIndex))

\* The whole call: the region, or Null.
findFullSection(source, openTagRegex) ==
  LET RECURSIVE run(_)
      run(st) == IF st.pc = "done" THEN st.res ELSE run(findScan(source, st))
  IN run(findOpen(source, openTagRegex))

----------------------------------------------------------------------------
(* The calls of findFullSection, one loop turn per step.                   *)

MaxFrags == 3
FindFrags == <<"<div>", "</div>", "<div />", "<div/>", "<DIV id=a>", "</Div >", "<divx>", "bio">>
FindOpener == "<div class=\"about\">"
NestedExample == "<div class=\"about\"><div>nested</div>real bio text here</div>"
FragSeqs(frags, n) == UNION {[1..k -> 1..Len(frags)] : k \in 0..n}
Concat(frags, q) == join([j \in 1..Len(q) |-> frags[q[j]]], "")
FindSources ==
  {NestedExample} \cup
  {pre \o Concat(FindFrags, q) : pre \in {"", FindOpener}, q \in FragSeqs(FindFrags, MaxFrags)}
Openers == [about |-> aboutPattern, div |-> openTagAtStart("div")]

FIdle == fsrc = "" /\ fopen = "about" /\ find = FindDone(Null)
FInit ==
  /\ fsrc \in FindSources
  /\ fopen \in DOMAIN Openers
  /\ find = [pc |-> "call", res |-> Null]
FindOpen ==
  /\ find.pc = "call"
  /\ find' = findOpen(fsrc, Openers[fopen])
  /\ UNCHANGED <<fsrc, fopen, rvars, cvars, hvars, tvars>>
FindScan ==
  /\ find.pc = "scan"
  /\ find' = findScan(fsrc, find)
  /\ UNCHANGED <<fsrc, fopen, rvars, cvars, hvars, tvars>>
FNext == FindOpen \/ FindScan

----------------------------------------------------------------------------
(* extractResumeData(text)                                                 *)

slice(arr, a, b) == SubSeq(arr, a + 1, Min(b, Len(arr)))     \* arr.slice(a, b), 0 <= a
\* [...new Set(arr)]: the first occurrence of each element, in order
unique(arr) == SelectSeq2(arr, [j \in 1..Len(arr) |-> \A i \in 1..(j - 1) : arr[i] # arr[j]])

\* Lines 237-248
emptyData ==
  [name |-> "", role |-> "", bio |-> "", summary |-> "", email |-> "", phone |-> "",
   github |-> "", linkedin |-> "", skills |-> <<>>, projects |-> <<>>]
\* Line 250
linesOf(txt) ==
  LET kept(parts) == SelectSeq([j \in 1..Len(parts) |-> trim(parts[j])],
                               LAMBDA l : Len(l) > 0)
  IN kept(split(txt, RegExp(<<Lit("\n")>>, FALSE)))

emailPattern == RegExp(<<Plus(Set(Word \cup {".", "-"})), Lit("@"), Plus(Set(Word \cup {".", "-"})), Lit("."),
         Rep(<<Set(Lower \cup Upper)>>, 2, -1, TRUE)>>, FALSE)
phonePattern ==
  RegExp(<<Opt(<<Cap(1, <<Opt(<<Lit("+")>>), Rep(<<Set(Digit)>>, 1, 3, TRUE),
         Opt(<<Set(Space \cup {"-", "."})>>)>>)>>), Opt(<<Lit("(")>>), Rep(<<Set(Digit)>>, 3,
         3, TRUE), Opt(<<Lit(")")>>), Opt(<<Set(Space \cup {"-", "."})>>),
         Rep(<<Set(Digit)>>, 3, 3, TRUE), Opt(<<Set(Space \cup {"-", "."})>>),
         Rep(<<Set(Digit)>>, 4, 4, TRUE)>>, FALSE)
linkedinPattern == RegExp(<<Lit("linkedin.com/in/"), Cap(1, <<Plus(Set(Word \cup {"-"}))>>)>>, TRUE)
githubPattern == RegExp(<<Lit("github.com/"), Cap(1, <<Plus(Set(Word \cup {"-"}))>>)>>, TRUE)
\* A variant of contactField (below) that assigns without the guard:
\* field = (txt.match(re) || [])[g].
contactFieldUnguarded(field, txt, re, g) ==
  LET read(m) == IF ~m.ok THEN Undefined ELSE IF g = 0 THEN M0(txt, m) ELSE G(txt, m, g)
  IN read(match(txt, re))
\* Lines 253-254, 257-258, 261-262, 265-266: const m = txt.match(re);
\* if (m) field = m[g]
contactField(field, txt, re, g) ==
  LET read(m) == IF ~m.ok THEN field ELSE IF g = 0 THEN M0(txt, m) ELSE G(txt, m, g)
  IN read(match(txt, re))
\* Lines 252-266
extractContacts(txt, d) ==
  [d EXCEPT !.email = contactField(@, txt, emailPattern, 0),
            !.phone = contactField(@, txt, phonePattern, 0),
            !.linkedin = contactField(@, txt, linkedinPattern, 1),
            !.github = contactField(@, txt, githubPattern, 1)]

\* Line 269
sectionHeaders ==
  RegExp(<<BOL, Words(<<"summary", "about", "profile", "objective", "experience", "education",
         "skills", "projects", "work", "certif", "contact", "interests", "hobbies",
         "achievements", "awards", "languages", "references">>)>>, TRUE)
\* Line 271: line.replace(/[^\w\s.-]/g, '').trim()
nameCleaned(line) == trim(replaceAll(line, RegExp(<<NSet(Word \cup Space \cup {".", "-"})>>, FALSE), ""))
\* Lines 273-283
isNameCandidate(line) ==
  LET tokensOk(n) == n >= 2 /\ n <= 5
      ok(cleaned) ==
        /\ Len(cleaned) >= 3
        /\ Len(cleaned) <= 50
        /\ ~test(sectionHeaders, cleaned)
        /\ ~test(RegExp(<<Set(Digit)>>, FALSE), cleaned)
        /\ ~test(RegExp(<<Lit("@")>>, FALSE), line)
        /\ ~test(RegExp(<<Words(<<"http", "www.", ".com", ".org">>)>>, TRUE), line)
        /\ ~test(RegExp(<<Words(<<"phone", "email", "address", "linkedin", "github">>)>>, TRUE), line)
        /\ tokensOk(Len(split(cleaned, RegExp(<<Plus(Set(Space))>>, FALSE))))
  IN ok(nameCleaned(line))
\* Lines 289-291
nameFallback(ls, name) ==
  IF name = "" /\ Len(ls) > 0
  THEN substring(trim(replaceAll(ls[1], RegExp(<<NSet(Word \cup Space)>>, FALSE), "")), 0, 50)
  ELSE name
\* Lines 270-291 with every acceptable line overwriting the one before (the
\* loop without its break); a variant of extractName, below.
extractNameLastWins(ls, d) ==
  LET first8 == slice(ls, 0, 8)
      last(hits) == nameFallback(ls, IF hits # {} THEN nameCleaned(first8[MaxOf(hits)])
                                     ELSE d.name)
  IN [d EXCEPT !.name = last({k \in 1..Len(first8) : isNameCandidate(first8[k])})]
\* Lines 270-291
extractName(ls, d) ==
  LET first8 == slice(ls, 0, 8)
      RECURSIVE scan(_)
      scan(k) == IF k > Len(first8) THEN d.name
                 ELSE IF isNameCandidate(first8[k]) THEN nameCleaned(first8[k])
                 ELSE scan(k + 1)
  IN [d EXCEPT !.name = nameFallback(ls, scan(1))]

\* Lines 294-300
roleKeywords ==
  <<"Developer", "Engineer", "Designer", "Manager", "Analyst", "Architect",
    "Consultant", "Intern", "Scientist", "Researcher", "Administrator",
    "Lead", "Director", "Specialist", "Coordinator", "Programmer",
    "Full Stack", "Frontend", "Backend", "DevOps", "Data", "Machine Learning",
    "AI", "Software", "Web", "Mobile", "Cloud", "Security", "QA", "UI/UX">>
\* Lines 301-320
extractRole(ls, d) ==
  LET first10 == slice(ls, 0, 10)
      hasKeyword(low) == \E k \in 1..Len(roleKeywords) :
                            includes(low, toLowerCase(roleKeywords[k]))
      skipped(line) ==
        \/ test(sectionHeaders, line)
        \/ line = d.name
        \/ test(RegExp(<<Words(<<"@", "phone", "http", "www.">>)>>, TRUE), line)
      RECURSIVE scan(_)
      taken(k, role) == IF Len(role) > 5 /\ Len(role) < 120 THEN role ELSE scan(k + 1)
      scan(k) == IF k > Len(first10) THEN d.role
                 ELSE IF skipped(first10[k]) THEN scan(k + 1)
                 ELSE IF hasKeyword(toLowerCase(first10[k]))
                      THEN taken(k, trim(replaceAll(first10[k], RegExp(<<Set({BULLET, "-", "|"})>>, FALSE), "")))
                 ELSE scan(k + 1)
  IN [d EXCEPT !.role = scan(1)]

\* Line 323
sectionPattern ==
  RegExp(<<BOL, Alt(<< <<Lit("summary")>>, <<Lit("about"), Star(Set(Space)), Lit("me")>>,
         <<Lit("about")>>, <<Lit("profile")>>, <<Lit("objective")>>, <<Lit("professional"),
         Star(Set(Space)), Lit("summary")>>, <<Lit("career"), Star(Set(Space)),
         Lit("summary")>>, <<Lit("experience")>>, <<Lit("work"), Star(Set(Space)),
         Lit("experience")>>, <<Lit("professional"), Star(Set(Space)), Lit("experience")>>,
         <<Lit("education")>>, <<Lit("academic")>>, <<Lit("skills")>>, <<Lit("technical"),
         Star(Set(Space)), Lit("skills")>>, <<Lit("core"), Star(Set(Space)),
         Lit("competencies")>>, <<Lit("projects")>>, <<Lit("personal"), Star(Set(Space)),
         Lit("projects")>>, <<Lit("certif")>>, <<Lit("contact")>>, <<Lit("interests")>>,
         <<Lit("hobbies")>>, <<Lit("achievements")>>, <<Lit("awards")>>,
         <<Lit("languages")>>, <<Lit("references")>>, <<Lit("publications")>> >>)>>, TRUE)
\* Lines 327, 339: the line without its decoration, trimmed
headerClean(line) == trim(replaceAll(line, RegExp(<<Set({":", "-", BULLET, "|", "#", "*", "_"})>>, FALSE), ""))
\* Lines 325-335; indices are those of the source, from 0
findSection(ls, keywords) ==
  LET named(clean) == \E k \in 1..Len(keywords) :
                         \/ clean = keywords[k]
                         \/ startsWith(clean, keywords[k] \o " ")
                         \/ endsWith(clean, " " \o keywords[k])
      first(at) == IF at = {} THEN -1 ELSE MinOf(at)
  IN first({i \in 0..(Len(ls) - 1) : named(toLowerCase(headerClean(ls[i + 1])))})
\* Lines 337-345
getSectionEnd(ls, startIdx) ==
  LET header(clean) == test(sectionPattern, clean) /\ Len(clean) < 40
      first(at) == IF at # {} THEN MinOf(at) ELSE Min(startIdx + 30, Len(ls))
  IN first({i \in (startIdx + 1)..(Len(ls) - 1) : header(headerClean(ls[i + 1]))})
\* Lines 347-350
getSectionText(ls, startIdx) ==
  trim(join(slice(ls, startIdx + 1, getSectionEnd(ls, startIdx)), " "))

\* A variant of extractBio (below) without its two slice(0, 500).
extractBioUncut(ls, d) ==
  LET cleanedOf(sectionText) ==
        trim(replaceFirst(replaceAll(sectionText, RegExp(<<Plus(Set(Space))>>, FALSE), " "),
                          RegExp(<<BOL, Plus(Set(Space \cup {BULLET, "-", ":"}))>>, FALSE), ""))
      taken(cleaned) == IF Len(cleaned) > 20 THEN cleaned ELSE ""
      section(summaryIdx) ==
        IF summaryIdx # -1 THEN taken(cleanedOf(getSectionText(ls, summaryIdx))) ELSE ""
      rest == slice(ls, 1, 15)
      RECURSIVE scan(_)
      scan(k) == IF k > Len(rest) THEN ""
                 ELSE IF /\ Len(rest[k]) > 80
                         /\ ~test(sectionHeaders, rest[k])
                         /\ ~test(RegExp(<<Lit("@")>>, FALSE), rest[k])
                      THEN rest[k]
                 ELSE scan(k + 1)
      set(bio) == [d EXCEPT !.bio = bio, !.summary = bio]
      fallback(line) == IF line # "" THEN set(line) ELSE d
      orFallback(summary) == IF summary # "" THEN set(summary)
                             ELSE IF d.bio = "" THEN fallback(scan(1))
                             ELSE d
  IN orFallback(section(findSection(ls, <<"summary", "about me", "about", "profile",
                                          "objective", "professional summary",
                                          "career summary", "career objective">>)))
\* Lines 353-375
extractBio(ls, d) ==
  LET cleanedOf(sectionText) ==
        trim(replaceFirst(replaceAll(sectionText, RegExp(<<Plus(Set(Space))>>, FALSE), " "),
                          RegExp(<<BOL, Plus(Set(Space \cup {BULLET, "-", ":"}))>>, FALSE), ""))
      taken(cleaned) == IF Len(cleaned) > 20 THEN substring(cleaned, 0, 500) ELSE ""
      section(summaryIdx) ==
        IF summaryIdx # -1 THEN taken(cleanedOf(getSectionText(ls, summaryIdx))) ELSE ""
      rest == slice(ls, 1, 15)
      RECURSIVE scan(_)
      scan(k) == IF k > Len(rest) THEN ""
                 ELSE IF /\ Len(rest[k]) > 80
                         /\ ~test(sectionHeaders, rest[k])
                         /\ ~test(RegExp(<<Lit("@")>>, FALSE), rest[k])
                      THEN substring(rest[k], 0, 500)
                 ELSE scan(k + 1)
      set(bio) == [d EXCEPT !.bio = bio, !.summary = bio]
      fallback(line) == IF line # "" THEN set(line) ELSE d
      orFallback(summary) == IF summary # "" THEN set(summary)
                             ELSE IF d.bio = "" THEN fallback(scan(1))
                             ELSE d
  IN orFallback(section(findSection(ls, <<"summary", "about me", "about", "profile",
                                          "objective", "professional summary",
                                          "career summary", "career objective">>)))

\* Lines 388-513: { name, pattern }; every pattern has the i flag.  A group
\* whose capture is never read is written without its capture.
Rule(name, k) == [name |-> name, pattern |-> RegExp(k, TRUE)]
W(w) == <<WB, Lit(w), WB>>
skillDefinitions ==
  <<
    Rule("JavaScript", W("javascript")), Rule("TypeScript", W("typescript")),
    Rule("Python", W("python")),
    Rule("Java", <<WB, Lit("java"), WB, NLook(<<Star(Set(Space)), Lit("script")>>)>>),
    Rule("C++", <<WB, Lit("c++")>>), Rule("C#", <<WB, Lit("c#")>>),
    Rule("C", <<WB, Lit("c"), WB, NLook(<<Words(<<"+", "#", "s", "o">>)>>)>>),
    Rule("PHP", W("php")), Rule("Ruby", W("ruby")),
    Rule("Go", <<Alt(<< <<WB, Lit("golang"), WB>>, <<WB, Lit("go"), Star(Set(Space)),
        Lit("lang"), WB>>, <<WB, Lit("go"), WB, Look(<<Star(Set(Space)), Set({"\n"} \cup {",",
        ";", "|", BULLET})>>)>> >>)>>),
    Rule("Rust", W("rust")), Rule("Swift", W("swift")), Rule("Kotlin", W("kotlin")),
    Rule("R", <<WB, Lit("r"), WB, Look(<<Alt(<< <<Star(Set(Space)), Set({"\n"} \cup {",", ";",
        "|", BULLET, "("})>>, <<Plus(Set(Space)), Lit("programming")>>, <<Plus(Set(Space)),
        Lit("language")>>, <<Plus(Set(Space)), Lit("studio")>> >>)>>)>>),
    Rule("MATLAB", W("matlab")), Rule("Dart", W("dart")), Rule("Scala", W("scala")),
    Rule("Perl", W("perl")), Rule("Haskell", W("haskell")),
    Rule("React", <<WB, Lit("react"), Opt(<<Opt(<<Lit(".")>>), Lit("js")>>), WB>>),
    Rule("Angular", <<WB, Lit("angular"), Opt(<<Opt(<<Lit(".")>>), Lit("js")>>), WB>>),
    Rule("Vue.js", <<WB, Lit("vue"), Opt(<<Opt(<<Lit(".")>>), Lit("js")>>), WB>>),
    Rule("Next.js", <<WB, Lit("next"), Opt(<<Opt(<<Lit(".")>>), Lit("js")>>), WB>>),
    Rule("Svelte", W("svelte")), Rule("HTML", <<WB, Lit("html"), Opt(<<Lit("5")>>), WB>>),
    Rule("CSS", <<WB, Lit("css"), Opt(<<Lit("3")>>), WB>>),
    Rule("Tailwind CSS", W("tailwind")), Rule("Bootstrap", W("bootstrap")),
    Rule("SASS", <<Alt(<< <<WB, Lit("sass"), WB>>, <<WB, Lit("scss"), WB>> >>)>>),
    Rule("jQuery", W("jquery")),
    Rule("Node.js", <<WB, Lit("node"), Opt(<<Opt(<<Lit(".")>>), Lit("js")>>), WB>>),
    Rule("Express", <<WB, Lit("express"), Opt(<<Opt(<<Lit(".")>>), Lit("js")>>), WB>>),
    Rule("Django", W("django")), Rule("Flask", W("flask")), Rule("FastAPI", W("fastapi")),
    Rule("Spring Boot", <<WB, Lit("spring"), Star(Set(Space)), Lit("boot"), WB>>),
    Rule("Spring", <<WB, Lit("spring"), WB, NLook(<<Star(Set(Space)), Lit("boot")>>)>>),
    Rule("Laravel", W("laravel")),
    Rule("ASP.NET", <<WB, Lit("asp"), Opt(<<Lit(".")>>), Lit("net"), WB>>),
    Rule("Ruby on Rails", <<Alt(<< <<WB, Lit("rails"), WB>>, <<WB, Lit("ruby on rails"),
        WB>> >>)>>),
    Rule("MongoDB", <<Alt(<< <<WB, Lit("mongodb"), WB>>, <<WB, Lit("mongo"), WB>> >>)>>),
    Rule("PostgreSQL", <<WB, Lit("postgres"), Opt(<<Lit("ql")>>), WB>>),
    Rule("MySQL", W("mysql")), Rule("SQLite", W("sqlite")),
    Rule("SQL", <<WB, Lit("sql"), WB, NLook(<<Lit("ite")>>)>>), Rule("Redis", W("redis")),
    Rule("Firebase", W("firebase")), Rule("Supabase", W("supabase")),
    Rule("DynamoDB", W("dynamodb")), Rule("Cassandra", W("cassandra")),
    Rule("Oracle", W("oracle")), Rule("AWS", W("aws")), Rule("Azure", W("azure")),
    Rule("GCP", <<Alt(<< <<WB, Lit("gcp"), WB>>, <<WB, Lit("google cloud"), WB>> >>)>>),
    Rule("Docker", W("docker")),
    Rule("Kubernetes", <<Alt(<< <<WB, Lit("kubernetes"), WB>>, <<WB, Lit("k8s"), WB>> >>)>>),
    Rule("Jenkins", W("jenkins")),
    Rule("CI/CD", <<WB, Lit("ci"), Opt(<<Lit("/")>>), Lit("cd"), WB>>),
    Rule("Terraform", W("terraform")), Rule("Ansible", W("ansible")),
    Rule("Nginx", W("nginx")), Rule("Heroku", W("heroku")), Rule("Vercel", W("vercel")),
    Rule("Netlify", W("netlify")),
    Rule("Git", <<WB, Lit("git"), WB, NLook(<<Words(<<"hub", "lab">>)>>)>>),
    Rule("GitHub", W("github")), Rule("GitLab", W("gitlab")), Rule("Linux", W("linux")),
    Rule("Figma", W("figma")), Rule("Photoshop", W("photoshop")),
    Rule("VS Code", <<Alt(<< <<WB, Lit("vs"), Star(Set(Space)), Lit("code"), WB>>, <<WB,
        Lit("visual studio code"), WB>> >>)>>),
    Rule("Postman", W("postman")), Rule("JIRA", W("jira")), Rule("Webpack", W("webpack")),
    Rule("Vite", W("vite")),
    Rule("Machine Learning", <<WB, Lit("machine"), Star(Set(Space)), Lit("learning"), WB>>),
    Rule("Deep Learning", <<WB, Lit("deep"), Star(Set(Space)), Lit("learning"), WB>>),
    Rule("TensorFlow", W("tensorflow")), Rule("PyTorch", W("pytorch")),
    Rule("Scikit-Learn", <<Alt(<< <<WB, Lit("scikit"), WB>>, <<WB, Lit("sklearn"), WB>> >>)>>),
    Rule("Pandas", W("pandas")), Rule("NumPy", W("numpy")),
    Rule("Data Science", <<WB, Lit("data"), Star(Set(Space)), Lit("science"), WB>>),
    Rule("NLP", <<Alt(<< <<WB, Lit("nlp"), WB>>, <<WB, Lit("natural language processing"),
        WB>> >>)>>),
    Rule("Computer Vision", <<WB, Lit("computer"), Star(Set(Space)), Lit("vision"), WB>>),
    Rule("OpenCV", W("opencv")), Rule("Tableau", W("tableau")),
    Rule("Power BI", <<WB, Lit("power"), Star(Set(Space)), Lit("bi"), WB>>),
    Rule("Excel", W("excel")), Rule("Flutter", W("flutter")),
    Rule("React Native", <<WB, Lit("react"), Star(Set(Space)), Lit("native"), WB>>),
    Rule("Android", W("android")), Rule("iOS", W("ios")), Rule("GraphQL", W("graphql")),
    Rule("REST API", <<Alt(<< <<WB, Lit("rest"), Star(Set(Space)), Opt(<<Lit("ful")>>),
        Star(Set(Space)), Lit("api"), WB>>, <<WB, Lit("rest"), WB>> >>)>>),
    Rule("WebSocket", W("websocket")), Rule("Blockchain", W("blockchain")),
    Rule("Solidity", W("solidity")), Rule("Web3", W("web3")), Rule("Agile", W("agile")),
    Rule("Scrum", W("scrum")),
    Rule("Three.js", <<WB, Lit("three"), Opt(<<Lit(".")>>), Lit("js"), WB>>),
    Rule("Socket.io", <<WB, Lit("socket"), Opt(<<Lit(".")>>), Lit("io"), WB>>),
    Rule("Mongoose", W("mongoose")), Rule("Prisma", W("prisma")), Rule("OAuth", W("oauth")),
    Rule("JWT", W("jwt"))
  >>
\* Lines 378-379
skillsIndex(ls) ==
  findSection(ls, <<"skills", "technical skills", "core competencies", "technologies",
                    "tech stack", "tools">>)
\* Lines 380-385
skillsTextOf(txt, ls) ==
  LET span(skillsIdx) ==
        IF skillsIdx # -1
        THEN join(slice(ls, skillsIdx, getSectionEnd(ls, skillsIdx)), " ")
        ELSE txt
  IN span(skillsIndex(ls))
\* A variant of matchedSkills (below) that looks for each skill's name as a
\* substring: skillsText.toLowerCase().includes(skill.name.toLowerCase()).
matchedSkillsBySubstring(skillsText) ==
  LET hits(sl) == SelectSeq(skillDefinitions, LAMBDA skill : includes(sl, toLowerCase(skill.name)))
      names(rules) == unique([j \in 1..Len(rules) |-> rules[j].name])
  IN names(hits(toLowerCase(skillsText)))
\* Lines 516-522: skill.pattern.test(skillsText) for each rule, in table
\* order, into a Set (the lower-cased subject of the i flag is computed once)
matchedSkills(skillsText) ==
  LET hits(sl) == SelectSeq(skillDefinitions, LAMBDA skill : execOn(skill.pattern, sl, 0).ok)
      names(rules) == unique([j \in 1..Len(rules) |-> rules[j].name])
  IN names(hits(toLowerCase(skillsText)))
\* A variant of rawSkills (below) without its slice(0, 20).
rawSkillsUncapped(ls) ==
  LET rawText(skillsIdx) ==
        join(slice(ls, skillsIdx + 1, getSectionEnd(ls, skillsIdx)), "\n")
      items(parts) ==
        [j \in 1..Len(parts) |->
           trim(replaceAll(parts[j], RegExp(<<NSet(Word \cup Space \cup {".", "#", "+", "-"})>>, FALSE), ""))]
      kept(mapped) == SelectSeq(mapped, LAMBDA x : /\ Len(x) > 1
                                                   /\ Len(x) < 35
                                                   /\ ~test(RegExp(<<BOL, Plus(Set(Digit)), EOL>>, FALSE), x))
  IN unique(kept(items(split(rawText(skillsIndex(ls)),
                             RegExp(<<Set({"\n"} \cup {",", BULLET, "|", ":", ";", "/"})>>, FALSE)))))
\* Lines 525-533
rawSkills(ls) ==
  LET rawText(skillsIdx) ==
        join(slice(ls, skillsIdx + 1, getSectionEnd(ls, skillsIdx)), "\n")
      items(parts) ==
        [j \in 1..Len(parts) |->
           trim(replaceAll(parts[j], RegExp(<<NSet(Word \cup Space \cup {".", "#", "+", "-"})>>, FALSE), ""))]
      kept(mapped) == SelectSeq(mapped, LAMBDA x : /\ Len(x) > 1
                                                   /\ Len(x) < 35
                                                   /\ ~test(RegExp(<<BOL, Plus(Set(Digit)), EOL>>, FALSE), x))
  IN slice(unique(kept(items(split(rawText(skillsIndex(ls)),
                                   RegExp(<<Set({"\n"} \cup {",", BULLET, "|", ":", ";", "/"})>>, FALSE))))), 0, 20)
\* Lines 377-522
matchSkills(txt, ls, d) == [d EXCEPT !.skills = matchedSkills(skillsTextOf(txt, ls))]
\* Lines 524-533
extractRawSkills(ls, d) ==
  IF Len(d.skills) = 0 /\ skillsIndex(ls) # -1 THEN [d EXCEPT !.skills = rawSkills(ls)] ELSE d

\* Line 541
NoProject == [null |-> TRUE]
\* Line 537
projectSection(ls) ==
  findSection(ls, <<"projects", "personal projects", "academic projects", "key projects",
                    "notable projects", "selected projects">>)
\* A variant of projectsBegin (below) in which the list of projects is not
\* made anew: the loop starts with the list the call before left.
projectsBeginKeepsList(ls) ==
  LET section(projectIdx) ==
        IF projectIdx = -1 THEN <<>>
        ELSE slice(ls, projectIdx + 1, getSectionEnd(ls, projectIdx))
  IN [found |-> projectSection(ls) # -1, projectLines |-> section(projectSection(ls)),
      i |-> 1, currentProject |-> NoProject, projects |-> proj.projects]
\* Lines 536-542: the state of the loop over the lines of the section
projectsBegin(ls) ==
  LET section(projectIdx) ==
        IF projectIdx = -1 THEN <<>>
        ELSE slice(ls, projectIdx + 1, getSectionEnd(ls, projectIdx))
  IN [found |-> projectSection(ls) # -1, projectLines |-> section(projectSection(ls)),
      i |-> 1, currentProject |-> NoProject, projects |-> <<>>]
\* Lines 552-555
actionVerbs ==
  <<"Built", "Developed", "Created", "Implemented", "Designed", "Used", "Utilized",
    "Leveraged", "Integrated", "Achieved", "Reduced", "Improved", "Managed", "Led",
    "Collaborated", "Conducted">>
\* Lines 550-575
isLikelyTitle(stripped) ==
  /\ Len(stripped) < 80
  /\ \A v \in 1..Len(actionVerbs) : ~startsWith(stripped, actionVerbs[v])
  /\ ~test(RegExp(<<BOL, Set(Digit)>>, FALSE), stripped)
  /\ \/ test(RegExp(<<Set({"|", ENDASH, EMDASH})>>, FALSE), stripped)
     \/ /\ Len(stripped) < 60
        /\ test(RegExp(<<BOL, Set(Upper)>>, FALSE), stripped)
        /\ ~includes(stripped, ". ")
\* Line 545
bulletStripped(line) ==
  trim(replaceAll(line, RegExp(<<Set({BULLET, "-"})>>, FALSE), ""))
\* Lines 577-589: the project a title line opens
titledProject(stripped) ==
  LET parsed(titleParts) ==
        [null |-> FALSE,
         title |-> substring(trim(titleParts[1]), 0, 100),
         description |-> IF Len(titleParts) > 1 THEN trim(join(Tail(titleParts), " "))
                         ELSE "",
         link |-> ""]
  IN parsed(split(stripped, RegExp(<<Star(Set(Space)), Set({"|", ENDASH, EMDASH}), Star(Set(Space))>>, FALSE)))
\* Lines 590-601: a description line added to the current project
describedProject(cur, stripped) ==
  LET urlPattern == RegExp(<<Lit("http"), Opt(<<Lit("s")>>), Lit("://"), Plus(NSet(Space \cup {")"}))>>, FALSE)
      added(linkMatch, descLine) ==
        [cur EXCEPT !.link = IF linkMatch.ok THEN M0(stripped, linkMatch) ELSE @,
                    !.description = IF Len(descLine) > 5
                                    THEN @ \o (IF @ # "" THEN ". " ELSE "") \o descLine
                                    ELSE @]
  IN added(match(stripped, urlPattern), trim(replaceAll(stripped, urlPattern, "")))
\* A variant of projectLine (below) that puts a finished project in front of
\* the list instead of behind it.
projectLineNewestFirst(st, line) ==
  LET cur == st.currentProject
      body(stripped) ==
        IF stripped = "" THEN st
        ELSE IF isLikelyTitle(stripped) /\ Len(stripped) > 3
             THEN [st EXCEPT !.projects = IF ~cur.null /\ cur.title # ""
                                          THEN <<cur>> \o @ ELSE @,
                             !.currentProject = titledProject(stripped)]
        ELSE IF ~cur.null
             THEN [st EXCEPT !.currentProject = describedProject(cur, stripped)]
        ELSE st
  IN body(bulletStripped(line))
\* A variant of projectLine (below) that keeps a finished project whatever its
\* title is.
projectLineKeepsUntitled(st, line) ==
  LET cur == st.currentProject
      body(stripped) ==
        IF stripped = "" THEN st
        ELSE IF isLikelyTitle(stripped) /\ Len(stripped) > 3
             THEN [st EXCEPT !.projects = IF ~cur.null THEN Append(@, cur) ELSE @,
                             !.currentProject = titledProject(stripped)]
        ELSE IF ~cur.null
             THEN [st EXCEPT !.currentProject = describedProject(cur, stripped)]
        ELSE st
  IN body(bulletStripped(line))
\* Lines 544-602: the loop body for one line of the section
projectLine(st, line) ==
  LET cur == st.currentProject
      body(stripped) ==
        IF stripped = "" THEN st
        ELSE IF isLikelyTitle(stripped) /\ Len(stripped) > 3
             THEN [st EXCEPT !.projects = IF ~cur.null /\ cur.title # ""
                                          THEN Append(@, cur) ELSE @,
                             !.currentProject = titledProject(stripped)]
        ELSE IF ~cur.null
             THEN [st EXCEPT !.currentProject = describedProject(cur, stripped)]
        ELSE st
  IN body(bulletStripped(line))
\* A variant of projectsEnd (below) without its slice(0, 5) and slice(0, 300).
projectsEndUncapped(st) ==
  LET cur == st.currentProject
      projects == IF ~cur.null /\ cur.title # "" THEN Append(st.projects, cur)
                  ELSE st.projects
  IN [j \in 1..Len(projects) |->
        [title |-> projects[j].title,
         description |-> projects[j].description,
         link |-> projects[j].link]]
\* A variant of projectsEnd (below) that gives a sample project when the
\* section has none.
projectsEndWithSample(st) ==
  LET cur == st.currentProject
      projects == IF ~cur.null /\ cur.title # "" THEN Append(st.projects, cur)
                  ELSE st.projects
      top == slice(projects, 0, 5)
  IN IF Len(top) = 0 THEN <<[title |-> "My Project", description |-> "", link |-> ""]>>
     ELSE [j \in 1..Len(top) |->
             [title |-> top[j].title,
              description |-> substring(top[j].description, 0, 300),
              link |-> top[j].link]]
\* Lines 603-616
projectsEnd(st) ==
  LET cur == st.currentProject
      projects == IF ~cur.null /\ cur.title # "" THEN Append(st.projects, cur)
                  ELSE st.projects
      top == slice(projects, 0, 5)
  IN [j \in 1..Len(top) |->
        [title |-> top[j].title,
         description |-> substring(top[j].description, 0, 300),
         link |-> top[j].link]]

----------------------------------------------------------------------------
(* The call extractResumeData(text), one stage of the function per step    *)

MaxNameLines == 2
MaxSkillLines == 2
MaxProjectLines == 3
LongLine ==
  "Senior engineer with 10 years of experience: web, cloud & data platforms at scale, since 2014."
NameLines ==
  <<"Jane Alice Doe", "Software Engineer", "jane@example.com", "Dr. J. O'Neil-Smith",
    "Skills", "John", LongLine, "Mary Ann Lee www.lee.org">>
SkillLines ==
  <<"C++, C#, CSS, and Go fishing", "Built with Go, React", "I like go lang", "Skills",
    "C, Go", "Lets go | c", "Tools: Foo, Bar/Baz, 42, Foo">>
ProjectLines ==
  <<"E-Commerce Platform | React, Node",
    "Built a scalable store with 10k users. https://github.com/x/y",
    "AI Tasks", "Developed a task app.">>
NameExample == "Jane Alice Doe\nSoftware Engineer\njane@example.com"
ProjectExample ==
  "Projects\nE-Commerce Platform | React, Node\n"
    \o "Built a scalable store with 10k users. https://github.com/x/y\n"
    \o "AI Tasks\nDeveloped a task app."
\* Eight lines that are no name, then one that would be
NinthLineName == "R2\nD2\nC3\nP0\nK9\nQ1\nZ5\nX7\nJane Doe"
\* A line that holds a name and a role
RoleOnNameLine == "Jane Doe, Web Developer"
\* n copies of str
Times(str, n) ==
  LET RECURSIVE rep(_)
      rep(k) == IF k = 0 THEN "" ELSE IF k = 1 THEN str
                ELSE rep(k \div 2) \o rep(k - k \div 2)
  IN rep(n)
\* A summary of 32 lines before the next header
FarHeader == "Summary\n" \o Times("Wrote code.\n", 32) \o "Skills\nGo, React"
\* A summary of more than 500 characters, and a line of more than 500
LongSummary == "Jane Doe\nSummary\n" \o Times(LongLine \o "\n", 6) \o "Skills\nGo"
LongParagraph == "Skills\nGo\n" \o Times(LongLine \o " ", 6)
\* A skills section of 22 different items that no rule knows, one twice
ManyRawSkills ==
  "Skills\nXa, Xb, Xc, Xd, Xe, Xf, Xg, Xh, Xi, Xj, Xk, Xa, Xl, Xm, Xn, Xo, Xp, Xq, Xr, Xs, Xt, Xu, Xv"
\* Six projects, the first with a description of more than 300 characters
ManyProjects ==
  "Skills\nGo\nProjects\nAlpha App\n" \o Times(LongLine \o "\n", 4)
    \o "Beta Tool\nDeveloped a task app.\nGamma Site\nDeveloped a task app.\n"
    \o "Delta Bot\nDeveloped a task app.\nEpsilon Kit\nDeveloped a task app.\n"
    \o "Zeta Lab\nDeveloped a task app."
\* A projects section without a title line, and a text without the section
NoTitleLine == "Projects\nDeveloped a task app.\nbuilt with care and love"
\* A skills section with Go alone on its own line
GoOnOwnLine == "Skills\nGo\nReact"
\* A projects section with a line before the first title and a title line
\* whose text before the separator is empty
EmptyTitleSegment ==
  "Projects\nbuilt with care and love\nAlpha App | Go\nDeveloped a task app.\n"
    \o "| React, Node\nBuilt a scalable store.\nBeta Tool\nCreated the thing."
LineTexts(alphabet, n) ==
  {join([j \in 1..Len(q) |-> alphabet[q[j]]], "\n") : q \in FragSeqs(alphabet, n)}
ResumeTexts ==
  {"", " \n\t\n  ", NameExample, ProjectExample, NinthLineName, RoleOnNameLine, FarHeader,
   LongSummary, LongParagraph, ManyRawSkills, ManyProjects, NoTitleLine, GoOnOwnLine,
   EmptyTitleSegment}
    \cup LineTexts(NameLines, MaxNameLines)
    \cup LineTexts(SkillLines, MaxSkillLines)
    \cup {"Projects\n" \o t : t \in LineTexts(ProjectLines, MaxProjectLines)}

NoLoop ==
  [found |-> FALSE, projectLines |-> <<>>, i |-> 1, currentProject |-> NoProject,
   projects |-> <<>>]
RIdle == text = "" /\ rpc = "done" /\ lines = <<>> /\ data = emptyData /\ proj = NoLoop
RInit == text \in ResumeTexts /\ rpc = "call" /\ lines = <<>> /\ data = emptyData /\ proj = NoLoop

\* Lines 237-250
ExtractBegin ==
  /\ rpc = "call"
  /\ data' = emptyData
  /\ lines' = linesOf(text)
  /\ rpc' = "contacts"
  /\ UNCHANGED <<text, proj, fvars, cvars, hvars, tvars>>
\* Lines 252-266
ExtractContacts ==
  /\ rpc = "contacts"
  /\ data' = extractContacts(text, data)
  /\ rpc' = "name"
  /\ UNCHANGED <<text, lines, proj, fvars, cvars, hvars, tvars>>
\* Lines 268-291
ExtractName ==
  /\ rpc = "name"
  /\ data' = extractName(lines, data)
  /\ rpc' = "role"
  /\ UNCHANGED <<text, lines, proj, fvars, cvars, hvars, tvars>>
\* Lines 293-320
ExtractRole ==
  /\ rpc = "role"
  /\ data' = extractRole(lines, data)
  /\ rpc' = "bio"
  /\ UNCHANGED <<text, lines, proj, fvars, cvars, hvars, tvars>>
\* Lines 352-375
ExtractBio ==
  /\ rpc = "bio"
  /\ data' = extractBio(lines, data)
  /\ rpc' = "skills"
  /\ UNCHANGED <<text, lines, proj, fvars, cvars, hvars, tvars>>
\* Lines 377-522
MatchSkills ==
  /\ rpc = "skills"
  /\ data' = matchSkills(text, lines, data)
  /\ rpc' = "raw"
  /\ UNCHANGED <<text, lines, proj, fvars, cvars, hvars, tvars>>
\* Lines 524-533
ExtractRawSkills ==
  /\ rpc = "raw"
  /\ data' = extractRawSkills(lines, data)
  /\ rpc' = "projects"
  /\ UNCHANGED <<text, lines, proj, fvars, cvars, hvars, tvars>>
\* Lines 536-542: without a projects section the block is skipped
ProjectsBegin ==
  /\ rpc = "projects"
  /\ proj' = projectsBegin(lines)
  /\ rpc' = IF proj'.found THEN "loop" ELSE "return"
  /\ UNCHANGED <<text, lines, data, fvars, cvars, hvars, tvars>>
\* Lines 544-602
ProjectLine ==
  /\ rpc = "loop"
  /\ proj.i <= Len(proj.projectLines)
  /\ proj' = [projectLine(proj, proj.projectLines[proj.i]) EXCEPT !.i = proj.i + 1]
  /\ UNCHANGED <<text, rpc, lines, data, fvars, cvars, hvars, tvars>>
\* Lines 603-616
ProjectsEnd ==
  /\ rpc = "loop"
  /\ proj.i > Len(proj.projectLines)
  /\ data' = [data EXCEPT !.projects = projectsEnd(proj)]
  /\ rpc' = "return"
  /\ UNCHANGED <<text, lines, proj, fvars, cvars, hvars, tvars>>
\* Lines 619-624
ExtractReturn ==
  /\ rpc = "return"
  /\ data' = [data EXCEPT !.projects = IF Len(@) = 0 THEN <<>> ELSE @]
  /\ rpc' = "done"
  /\ returned' = Append(returned, Returns("extractResumeData", <<text>>, data'))
  /\ UNCHANGED <<text, lines, proj, fvars, cvars, calls, tvars>>
RNext ==
  \/ ExtractBegin \/ ExtractContacts \/ ExtractName \/ ExtractRole \/ ExtractBio
  \/ MatchSkills \/ ExtractRawSkills \/ ProjectsBegin \/ ProjectLine \/ ProjectsEnd \/ ExtractReturn

----------------------------------------------------------------------------
(* convertHTMLToTemplate(html, origin): the platform calls it makes        *)

\* Stand-ins for the characters outside ASCII of lines 1085, 1128 and 1139
HEART == "!"       \* U+2764 U+FE0F
ENVELOPE == "&"    \* U+1F4E7
ARROW == ";"       \* U+2192

Threw == [threw |-> TRUE]

\* The path of a URL with its "." and ".." segments resolved
dotless(path) ==
  LET walked(segs) ==
        LET RECURSIVE walk(_, _)
            last(k) == IF k = Len(segs) THEN <<"">> ELSE <<>>
            walk(k, out) ==
              IF k > Len(segs) THEN out
              ELSE IF segs[k] = "." THEN walk(k + 1, out \o last(k))
              ELSE IF segs[k] = ".."
                   THEN walk(k + 1, SubSeq(out, 1, Len(out) - 1) \o last(k))
              ELSE walk(k + 1, Append(out, segs[k]))
        IN "/" \o join(walk(1, <<>>), "/")
  IN walked(split(path, RegExp(<<Lit("/")>>, FALSE)))
\* Line 797: new URL(url, base).href, or the TypeError the constructor
\* throws.  The parser of the URL standard on the URLs of the calls below,
\* which hold letters, digits and ". - _ / :" only: a url with a scheme
\* stands for itself and needs a host when the scheme is ftp, ws or wss;
\* any other url is a path, resolved against the base, which must be an
\* http(s) origin.
newURL(url, base) ==
  LET schemePattern ==
        RegExp(<<BOL, Cap(1, <<Set(Lower \cup Upper),
                               Star(Set(Lower \cup Upper \cup Digit \cup {"+", "-", "."}))>>),
                 Lit(":"), Star(Set({"/"}))>>, TRUE)
      originPattern ==
        RegExp(<<BOL, Lit("http"), Opt(<<Lit("s")>>), Lit("://"),
                 Plus(Set(Word \cup {".", "-"})), EOL>>, TRUE)
      hostPattern == RegExp(<<BOL, Plus(Set(Word \cup {".", "-"}))>>, FALSE)
      hosted(scheme, rest, h) ==
        IF ~h.ok THEN Threw
        ELSE [threw |-> FALSE,
              href |-> scheme \o "://" \o toLowerCase(M0(rest, h))
                         \o dotless(substring(rest, h.e + 1, Len(rest)))]
      absolute(scheme, rest) ==
        IF scheme \in {"ftp", "ws", "wss"} THEN hosted(scheme, rest, match(rest, hostPattern))
        ELSE [threw |-> FALSE, href |-> scheme \o ":" \o substring(url, Len(scheme) + 1, Len(url))]
      relative(path) ==
        IF ~test(originPattern, base) THEN Threw
        ELSE [threw |-> FALSE, href |-> toLowerCase(base) \o dotless(path)]
      parsed(m) ==
        IF m.ok THEN absolute(toLowerCase(G(url, m, 1)), substring(url, m.e, Len(url)))
        ELSE relative(IF startsWith(url, "/") THEN substring(url, 1, Len(url)) ELSE url)
  IN parsed(match(url, schemePattern))

\* Line 827: new RegExp(src, 'g'), the pattern parsed from its source text,
\* or the SyntaxError the constructor throws.  The grammar: characters,
\* escapes, ".", "^", "$", classes of single characters, groups (none of
\* them read after the match), "|" and the quantifiers "*", "+", "?" with
\* their lazy forms; a brace stands for itself.
SyntaxError == [threw |-> TRUE, k |-> <<>>, as |-> <<>>, p |-> 0]
RECURSIVE parseDisjunction(_, _), parseAlternative(_, _, _)
\* The terms from offset p up to "|", ")" or the end, after the terms acc
parseAlternative(src, p, acc) ==
  LET c == charAt(src, p)
      withAtom(atom) ==
        IF atom.t = "lit" /\ acc # <<>> /\ acc[Len(acc)].t = "lit"
        THEN [acc EXCEPT ![Len(acc)].s = @ \o atom.s]
        ELSE Append(acc, atom)
      quantified(atom, qc, lazy, next) ==
        CASE qc = "*" -> parseAlternative(src, next, Append(acc, Rep(<<atom>>, 0, -1, ~lazy)))
          [] qc = "+" -> parseAlternative(src, next, Append(acc, Rep(<<atom>>, 1, -1, ~lazy)))
          [] qc = "?" -> parseAlternative(src, next, Append(acc, Rep(<<atom>>, 0, 1, ~lazy)))
          [] OTHER -> parseAlternative(src, next, withAtom(atom))
      \* atom ends before offset q; its quantifier, if any, follows
      term(atom, q) ==
        IF charAt(src, q) \notin {"*", "+", "?"} THEN quantified(atom, "", FALSE, q)
        ELSE quantified(atom, charAt(src, q), charAt(src, q + 1) = "?",
                        IF charAt(src, q + 1) = "?" THEN q + 2 ELSE q + 1)
      escape(e) ==
        CASE e = "d" -> Set(Digit)
          [] e = "w" -> Set(Word)
          [] e = "s" -> Set(Space)
          [] e = "D" -> NSet(Digit)
          [] e = "W" -> NSet(Word)
          [] e = "S" -> NSet(Space)
          [] e = "n" -> Lit("\n")
          [] e = "t" -> Lit("\t")
          [] OTHER -> Lit(e)
      group(r) == IF r.threw \/ charAt(src, r.p) # ")" THEN SyntaxError
                  ELSE term(Alt(r.as), r.p + 1)
      members(body) ==
        (Chars(body) \ {"\\"}) \cup (IF includes(body, "\\\\") THEN {"\\"} ELSE {})
      class(ends) ==
        IF ends = {} THEN SyntaxError
        ELSE IF charAt(src, p + 1) = "^"
             THEN term(NSet(members(substring(src, p + 2, MinOf(ends)))), MinOf(ends) + 1)
        ELSE term(Set(members(substring(src, p + 1, MinOf(ends)))), MinOf(ends) + 1)
  IN CASE c \in {"", "|", ")"} -> [threw |-> FALSE, k |-> acc, as |-> <<>>, p |-> p]
       [] c \in {"*", "+", "?"} -> SyntaxError
       [] c = "\\" -> IF p + 1 >= Len(src) THEN SyntaxError
                      ELSE IF charAt(src, p + 1) = "b"
                           THEN parseAlternative(src, p + 2, Append(acc, WB))
                      ELSE term(escape(charAt(src, p + 1)), p + 2)
       [] c = "(" -> group(parseDisjunction(src, IF startsWithAt(src, "(?:", p) THEN p + 3
                                                 ELSE p + 1))
       [] c = "[" -> class({q \in (p + 1)..(Len(src) - 1) :
                              charAt(src, q) = "]" /\ (q = p + 1 \/ charAt(src, q - 1) # "\\")})
       [] c = "." -> term(NSet({"\n", "\r"}), p + 1)
       [] c = "^" -> parseAlternative(src, p + 1, Append(acc, BOL))
       [] c = "$" -> parseAlternative(src, p + 1, Append(acc, EOL))
       [] OTHER -> term(Lit(c), p + 1)
\* The alternatives from offset p up to ")" or the end
parseDisjunction(src, p) ==
  LET more(first, rest) ==
        IF rest.threw THEN SyntaxError
        ELSE [threw |-> FALSE, k |-> <<>>, as |-> <<first.k>> \o rest.as, p |-> rest.p]
      alt(first) ==
        IF first.threw THEN SyntaxError
        ELSE IF charAt(src, first.p) = "|"
             THEN more(first, parseDisjunction(src, first.p + 1))
        ELSE [threw |-> FALSE, k |-> <<>>, as |-> <<first.k>>, p |-> first.p]
  IN alt(parseAlternative(src, p, <<>>))
newRegExp(src) ==
  LET made(r) ==
        IF r.threw \/ r.p < Len(src) THEN Threw
        ELSE [threw |-> FALSE,
              re |-> RegExp(IF Len(r.as) = 1 THEN r.as[1] ELSE <<Alt(r.as)>>, FALSE)]
  IN made(parseDisjunction(src, 0))

----------------------------------------------------------------------------
(* convertHTMLToTemplate(html, origin): its stages                         *)

\* Line 784
noneDetected ==
  [name |-> FALSE, role |-> FALSE, bio |-> FALSE, skills |-> FALSE, projects |-> FALSE,
   email |-> FALSE, social |-> FALSE]
\* Lines 811, 816, 844, 870, 946: s.replace(/<[^>]+>/g, '').trim()
textOf(s) == trim(replaceAll(s, RegExp(<<Lit("<"), Plus(NSet({">"})), Lit(">")>>, FALSE), ""))
\* The result of a stage that changes the template and the marks
Stage(t, d) == [tpl |-> t, detected |-> d]

\* Line 787
removeScripts(t) == replaceAll(t, RegExp(<<Lit("<script"), Star(NSet({">"})), Lit(">"), LazyStar(AnyCh), Lit("</script>")>>, TRUE), "")
\* Lines 790-792
removeStylesheets(t) ==
  replaceAll(
    replaceAll(
      replaceAll(t, RegExp(<<Lit("<link"), Star(NSet({">"})), Lit("rel="), Set({"\"", "'"}), Lit("stylesheet"),
         Set({"\"", "'"}), Star(NSet({">"})), Lit(">")>>, TRUE), ""),
      RegExp(<<Lit("<link"), Star(NSet({">"})), Lit("href="), Set({"\"", "'"}), Star(NSet({"\"", "'"})),
         Lit(".css"), Star(NSet({"\"", "'"})), Set({"\"", "'"}), Star(NSet({">"})), Lit(">")>>, TRUE), ""),
    RegExp(<<Lit("<style"), Star(NSet({">"})), Lit(">"), LazyStar(AnyCh), Lit("</style>")>>, TRUE), "")

\* A variant of absolutizeOne (below) without the try and catch around the
\* URL constructor: its TypeError leaves the callback.
absolutizeOneUncaught(matched, attr, urlPath, org) ==
  LET made(fullUrl) ==
        IF fullUrl.threw THEN [threw |-> TRUE, value |-> matched]
        ELSE [threw |-> FALSE, value |-> attr \o "=\"" \o fullUrl.href \o "\""]
  IN made(newURL(urlPath, org))
\* Lines 795-800: the callback (match, attr, urlPath) => ...
absolutizeOne(matched, attr, urlPath, org) ==
  LET made(fullUrl) ==
        IF fullUrl.threw THEN [threw |-> FALSE, value |-> matched]
        ELSE [threw |-> FALSE, value |-> attr \o "=\"" \o fullUrl.href \o "\""]
  IN made(newURL(urlPath, org))
\* Lines 795-800: tpl.replace(/.../gi, callback)
absolutizeUrls(t, org) ==
  LET called(m) == absolutizeOne(M0(t, m), G(t, m, 1), G(t, m, 2), org)
      filled(ms, outs) ==
        [threw |-> \E j \in 1..Len(outs) : outs[j].threw,
         tpl |-> splice(t, ms, [j \in 1..Len(outs) |-> outs[j].value])]
      each(ms) == filled(ms, [j \in 1..Len(ms) |-> called(ms[j])])
  IN each(matchAll(t, RegExp(<<Cap(1, <<Words(<<"src", "href">>)>>), Lit("="), Set({"\"", "'"}),
         NLook(<<Alt(<< <<Lit("data:")>>, <<Lit("http"), Opt(<<Lit("s")>>), Lit(":")>>,
         <<Lit("//")>>, <<Lit("#")>>, <<Lit("{{")>> >>)>>), Cap(2, <<Opt(<<Lit("/")>>),
         Plus(NSet({"\"", "'"}))>>), Set({"\"", "'"})>>, TRUE)))

\* A variant of injectCssLink (below) without the else branch: a document
\* without </head> gets no link.
injectCssLinkInHeadOnly(t) ==
  replaceStr(t, "</head>", "<link rel=\"stylesheet\" href=\"style.css\">\n</head>")
\* Lines 803-807
injectCssLink(t) ==
  IF includes(t, "</head>")
  THEN replaceStr(t, "</head>", "<link rel=\"stylesheet\" href=\"style.css\">\n</head>")
  ELSE "<link rel=\"stylesheet\" href=\"style.css\">\n" \o t

\* Lines 810-811
personName(t) ==
  LET name(h1Pre) == IF h1Pre.ok THEN textOf(G(t, h1Pre, 1)) ELSE ""
  IN name(match(t, RegExp(<<Lit("<h1"), Star(NSet({">"})), Lit(">"), Cap(1, <<LazyStar(AnyCh)>>), Lit("</h1>")>>, TRUE)))
\* Lines 814-821
replaceName(t, d) ==
  LET placed(h1Match, h1Content) ==
        IF Len(h1Content) > 1 /\ Len(h1Content) < 80
        THEN Stage(replaceStr(t, M0(t, h1Match),
                              "<h1" \o G(t, h1Match, 1) \o ">{{{name}}}</h1>"),
                   [d EXCEPT !.name = TRUE])
        ELSE Stage(t, d)
      read(h1Match) == IF h1Match.ok THEN placed(h1Match, textOf(G(t, h1Match, 2)))
                       ELSE Stage(t, d)
  IN read(match(t, RegExp(<<Lit("<h1"), Cap(1, <<Star(NSet({">"}))>>), Lit(">"), Cap(2, <<LazyStar(AnyCh)>>),
         Lit("</h1>")>>, TRUE)))

\* Line 825
escapedName(name) == replaceAll(name, RegExp(<<Set({".", "*", "+", "?", "^", "$", "{", "}", "(", ")", "|", "[", "]", "\\"})>>, FALSE), "\\$&")
\* Lines 824-828
cleanupName(t, name) ==
  LET replaced(re) == IF re.threw THEN [threw |-> TRUE, tpl |-> t]
                      ELSE [threw |-> FALSE, tpl |-> replaceAll(t, re.re, "{{name}}")]
  IN IF name # "" /\ Len(name) > 2 THEN replaced(newRegExp(escapedName(name)))
     ELSE [threw |-> FALSE, tpl |-> t]

\* Line 831
replaceTitle(t) ==
  replaceFirst(t, RegExp(<<Lit("<title"), Star(NSet({">"})), Lit(">"), LazyStar(AnyCh), Lit("</title>")>>, TRUE),
               "<title>{{name}} - Portfolio</title>")

\* Lines 834-837: each pattern with its source text
rolePatterns ==
  << [re |-> RegExp(<<Cap(1, <<Lit("<h2"), Star(NSet({">"})), Lit(">")>>), Cap(2, <<LazyStar(AnyCh)>>), Cap(3,
         <<Lit("</h2>")>>)>>, TRUE),
      source |-> "(<h2[^>]*>)([\\s\\S]*?)(<\\/h2>)"],
     [re |-> RegExp(<<Cap(1, <<Lit("<"), Words(<<"p", "span", "div">>), Star(NSet({">"})), Lit("class="),
         Set({"\"", "'"}), Star(NSet({"\"", "'"})), Words(<<"subtitle", "tagline", "title",
         "role", "headline", "hero-text", "intro-text">>), Star(NSet({"\"", "'"})),
         Set({"\"", "'"}), Star(NSet({">"})), Lit(">")>>), Cap(2, <<LazyStar(AnyCh)>>),
         Cap(3, <<Lit("</"), Words(<<"p", "span", "div">>), Lit(">")>>)>>, TRUE),
      source |-> "(<(?:p|span|div)[^>]*class=[\"'][^\"']*(?:subtitle|tagline|title|role|headline|hero-text|intro-text)[^\"']*[\"'][^>]*>)([\\s\\S]*?)(<\\/(?:p|span|div)>)"] >>
\* Line 845
roleWords ==
  RegExp(<<Alt(<< <<Lit("developer")>>, <<Lit("engineer")>>, <<Lit("designer")>>,
         <<Lit("architect")>>, <<Lit("analyst")>>, <<Lit("student")>>, <<Lit("intern")>>,
         <<Lit("scientist")>>, <<Lit("specialist")>>, <<Lit("manager")>>, <<Lit("lead")>>,
         <<Lit("consultant")>>, <<Lit("programmer")>>, <<Lit("freelancer")>>, <<Lit("full"),
         Opt(<<NSet({"\n", "\r"})>>), Lit("stack")>>, <<Lit("front"), Opt(<<NSet({"\n",
         "\r"})>>), Lit("end")>>, <<Lit("back"), Opt(<<NSet({"\n", "\r"})>>), Lit("end")>>,
         <<Lit("software")>>, <<Lit("web")>>, <<Lit("mobile")>>, <<Lit("data")>>,
         <<Lit("UX")>>, <<Lit("UI")>> >>)>>, TRUE)
\* Lines 838-861: the matches of each pattern in turn (firstH2 holds at the
\* first match of a pattern), until one is replaced
replaceRole(t, d) ==
  LET placed(m) ==
        [tpl |-> replaceStr(t, M0(t, m), G(t, m, 1) \o "{{role}}" \o G(t, m, 3)),
         detected |-> [d EXCEPT !.role = TRUE], roleReplaced |-> TRUE]
      RECURSIVE scan(_, _, _)
      judged(pattern, ms, k, txt) ==
        IF test(roleWords, txt) /\ Len(txt) < 120 THEN placed(ms[k])
        ELSE IF k = 1 /\ includes(pattern.source, "h2") /\ Len(txt) < 80 /\ Len(txt) > 2
             THEN placed(ms[k])
        ELSE scan(pattern, ms, k + 1)
      scan(pattern, ms, k) ==
        IF k > Len(ms) THEN [tpl |-> t, detected |-> d, roleReplaced |-> FALSE]
        ELSE judged(pattern, ms, k, textOf(G(t, ms[k], 2)))
      loop(pattern) == scan(pattern, matchAll(t, pattern.re), 1)
      next(first) == IF first.roleReplaced THEN first ELSE loop(rolePatterns[2])
      stage(r) == Stage(r.tpl, r.detected)
  IN stage(next(loop(rolePatterns[1])))

\* Lines 864-887
replaceAbout(t, d) ==
  LET paragraph(inner, m) == [full |-> M0(inner, m), attrs |-> G(inner, m, 1),
                              body |-> G(inner, m, 2)]
      pMatches(inner, ms) == [j \in 1..Len(ms) |-> paragraph(inner, ms[j])]
      substantial(ps) == SelectSeq(ps, LAMBDA p : Len(textOf(p.body)) > 20)
      RECURSIVE place(_, _, _)
      place(inner, ps, k) ==
        IF k > Len(ps) THEN inner
        ELSE place(replaceStr(inner, ps[k].full,
                              IF k = 1 THEN "<p" \o ps[k].attrs \o ">{{bio}}</p>" ELSE ""),
                   ps, k + 1)
      rebuilt(aboutSec, ps) ==
        IF Len(ps) > 0
        THEN Stage(replaceStr(t, aboutSec.full,
                              aboutSec.openTag \o place(aboutSec.inner, ps, 1)
                                \o aboutSec.closeTag),
                   [d EXCEPT !.bio = TRUE])
        ELSE Stage(t, d)
      found(aboutSec) ==
        IF aboutSec.null THEN Stage(t, d)
        ELSE rebuilt(aboutSec,
                     substantial(pMatches(aboutSec.inner,
                                          matchAll(aboutSec.inner,
                                                   RegExp(<<Lit("<p"), Cap(1, <<Star(NSet({">"}))>>), Lit(">"), Cap(2, <<LazyStar(AnyCh)>>), Lit("</p>")>>, TRUE)))))
  IN found(findFullSection(t, aboutPattern))


\* Lines 895-909: the list of the section as the loop over the skills; done
\* tells whether the loop was placed
skillsList(inner) ==
  LET kept == [inner |-> inner, done |-> FALSE]
      made(ulSec, liMatch) ==
        IF ~liMatch.ok THEN kept
        ELSE [inner |-> replaceStr(inner, ulSec.full,
                                   ulSec.openTag \o "\n{{#each (split skills \",\")}}\n"
                                     \o "<li" \o G(ulSec.inner, liMatch, 1) \o ">{{this}}</li>"
                                     \o "\n{{/each}}\n" \o ulSec.closeTag),
              done |-> TRUE]
      listed(ulSec) ==
        IF ulSec.null THEN kept
        ELSE made(ulSec, match(ulSec.inner, RegExp(<<Lit("<li"), Cap(1, <<Star(NSet({">"}))>>), Lit(">"), Cap(2, <<LazyStar(AnyCh)>>),
         Lit("</li>")>>, TRUE)))
      opened(ulOpenMatch) ==
        IF ~ulOpenMatch.ok THEN kept
        ELSE listed(findFullSection(inner, openTagOf(G(inner, ulOpenMatch, 1))))
  IN opened(match(inner, RegExp(<<Lit("<"), Cap(1, <<Words(<<"ul", "ol">>)>>), Star(NSet({">"})), Lit(">")>>, TRUE)))
\* Lines 911-924: the span, div and a items of the section as the loop
skillsTags(inner) ==
  LET RECURSIVE removed(_, _, _)
      removed(s, tagItems, k) ==
        IF k > Len(tagItems) THEN s
        ELSE removed(replaceStr(s, M0(inner, tagItems[k]), ""), tagItems, k + 1)
      template(item) ==
        "<" \o G(inner, item, 1) \o G(inner, item, 2) \o ">{{this}}</" \o G(inner, item, 1) \o ">"
      looped(tagItems) ==
        IF Len(tagItems) >= 3
        THEN [inner |-> replaceFirst(removed(inner, tagItems, 1), RegExp(<<Cap(1, <<Lit(">"), Star(Set(Space))>>)>>, FALSE),
                                     "$1\n{{#each (split skills \",\")}}\n"
                                       \o template(tagItems[1]) \o "\n{{/each}}\n"),
              done |-> TRUE]
        ELSE [inner |-> inner, done |-> FALSE]
  IN looped(matchAll(inner, RegExp(<<Lit("<"), Cap(1, <<Words(<<"span", "div", "a">>)>>), Cap(2, <<Star(NSet({">"}))>>),
         Lit(">"), Cap(3, <<Rep(<<NSet({"<"})>>, 1, 50, TRUE)>>), Lit("</"), Ref(1), Lit(">")>>, TRUE)))
\* Lines 890-925
replaceSkills(t, d) ==
  LET rebuilt(skillsSec, r) ==
        IF r.done
        THEN Stage(replaceStr(t, skillsSec.full,
                              skillsSec.openTag \o r.inner \o skillsSec.closeTag),
                   [d EXCEPT !.skills = TRUE])
        ELSE Stage(t, d)
      tagged(skillsSec, list) ==
        IF list.done \/ d.skills THEN rebuilt(skillsSec, list)
        ELSE rebuilt(skillsSec, skillsTags(skillsSec.inner))
      found(skillsSec) ==
        IF skillsSec.null THEN Stage(t, d)
        ELSE tagged(skillsSec, skillsList(skillsSec.inner))
  IN found(findFullSection(t, RegExp(<<Lit("<"), Words(<<"section", "div">>), Star(NSet({">"})), Words(<<"id", "class">>),
         Lit("="), Set({"\"", "'"}), Star(NSet({"\"", "'"})), Words(<<"skill", "tech",
         "stack", "tool", "competenc", "expertise">>), Star(NSet({"\"", "'"})), Set({"\"",
         "'"}), Star(NSet({">"})), Lit(">")>>, TRUE)))

\* Lines 944-949, 957-962, 969-974: the regions that open at the matches of
\* opener in src and hold more than 20 characters of text
cardsAt(src, opener, tag) ==
  LET regions(ms) ==
        [j \in 1..Len(ms) |->
           findFullSection(substring(src, ms[j].index, Len(src)), openTagAtStart(tag))]
  IN SelectSeq(regions(matchAll(src, opener)),
               LAMBDA sec : ~sec.null /\ Len(textOf(sec.inner)) > 20)
\* Lines 934-975: the list container, if any, and the cards
projectCards(inner) ==
  LET try3(cardContainer, cards) ==
        [cardContainer |-> cardContainer,
         cards |-> IF Len(cards) = 0
                   THEN cardsAt(inner, RegExp(<<Lit("<div"), Star(NSet({">"})), Lit("class="), Set({"\"", "'"}), Star(NSet({"\"", "'"})),
         Words(<<"card", "item", "project", "featured">>), Star(NSet({"\"", "'"})),
         Set({"\"", "'"}), Star(NSet({">"})), Lit(">")>>, TRUE), "div")
                   ELSE cards]
      try2(cardContainer, cards) ==
        try3(cardContainer,
             IF Len(cards) = 0
             THEN cardsAt(inner, RegExp(<<Lit("<article"), Star(NSet({">"})), Lit(">")>>, TRUE), "article")
             ELSE cards)
      try1(cardContainer) ==
        try2(cardContainer,
             IF cardContainer.null THEN <<>>
             ELSE cardsAt(cardContainer.inner, RegExp(<<Lit("<li"), Star(NSet({">"})), Lit(">")>>, TRUE), "li"))
      opened(listOpenMatch) ==
        IF ~listOpenMatch.ok THEN try1(Null)
        ELSE try1(findFullSection(inner, openTagOf(G(inner, listOpenMatch, 1))))
  IN opened(match(inner, RegExp(<<Lit("<"), Cap(1, <<Words(<<"ul", "ol">>)>>), Cap(2, <<Star(NSet({">"}))>>), Lit(">")>>, TRUE)))
\* Lines 979-1006: the first card as the template of a project
cardTemplate(card) ==
  LET titled(ct, headingMatch, linkMatch) ==
        IF headingMatch.ok
        THEN replaceStr(ct, M0(ct, headingMatch),
                        "<" \o G(ct, headingMatch, 1) \o G(ct, headingMatch, 2)
                          \o ">{{this.title}}</" \o G(ct, headingMatch, 1) \o ">")
        ELSE IF linkMatch.ok /\ Len(textOf(G(ct, linkMatch, 2))) > 3
             THEN replaceStr(ct, M0(ct, linkMatch),
                             "<a" \o G(ct, linkMatch, 1) \o ">{{this.title}}</a>")
        ELSE ct
      title(ct) ==
        titled(ct, match(ct, RegExp(<<Lit("<"), Cap(1, <<Alt(<< <<Lit("h"), Set({"2", "3", "4"})>>, <<Lit("strong")>> >>)>>),
         Cap(2, <<Star(NSet({">"}))>>), Lit(">"), Cap(3, <<LazyStar(AnyCh)>>), Lit("</"),
         Ref(1), Lit(">")>>, TRUE)),
               match(ct, RegExp(<<Lit("<a"), Cap(1, <<Star(NSet({">"}))>>), Lit(">"), Cap(2, <<LazyStar(AnyCh)>>), Lit("</a>")>>, TRUE)))
      described(ct, descMatch) ==
        IF descMatch.ok /\ Len(textOf(G(ct, descMatch, 2))) > 10
        THEN replaceStr(ct, M0(ct, descMatch),
                        "<p" \o G(ct, descMatch, 1) \o ">{{this.description}}</p>")
        ELSE ct
      description(ct) ==
        described(ct, match(ct, RegExp(<<Lit("<p"), Cap(1, <<Star(NSet({">"}))>>), Lit(">"), Cap(2, <<LazyStar(AnyCh)>>), Lit("</p>")>>, TRUE)))
      link(ct) ==
        replaceFirst(ct, RegExp(<<Lit("href="), Set({"\"", "'"}), NSet({"\"", "'", "#", "{"}), Star(NSet({"\"", "'"})),
         Set({"\"", "'"})>>, TRUE), "href=\"{{this.link}}\"")
      tags(ct) ==
        replaceAll(ct, RegExp(<<Lit("<ul"), Star(NSet({">"})), Lit("aria-label="), Set({"\"", "'"}), Star(NSet({"\"",
         "'"})), Words(<<"technolog", "tool", "tech", "used">>), Star(NSet({"\"", "'"})),
         Set({"\"", "'"}), Star(NSet({">"})), Lit(">"), LazyStar(AnyCh), Lit("</ul>")>>, TRUE), "")
      images(ct) ==
        replaceAll(ct, RegExp(<<Lit("<img"), Star(NSet({">"})), Words(<<"project", "card", "screenshot", "thumb">>),
         Star(NSet({">"})), Lit(">")>>, TRUE), "")
  IN images(tags(link(description(title(card.full)))))
\* Lines 1009-1026: the section with the loop in place of the list or of
\* the cards (cleanInner, lines 1016-1019, is computed and never read)
projectsLoop(inner, cardContainer, cards, template) ==
  LET each == "\n{{#each projects}}\n" \o template \o "\n{{/each}}\n"
      last == cards[Len(cards)].full
  IN IF ~cardContainer.null
     THEN replaceStr(inner, cardContainer.full,
                     cardContainer.openTag \o each \o cardContainer.closeTag)
     ELSE substring(inner, 0, indexOf(inner, cards[1].full)) \o each
            \o substring(inner, indexOf(inner, last) + Len(last), Len(inner))
\* Line 928
projPattern ==
  RegExp(<<Lit("<"), Words(<<"section", "div">>), Star(NSet({">"})), Words(<<"id", "class">>),
         Lit("="), Set({"\"", "'"}), Star(NSet({"\"", "'"})), Words(<<"project", "work",
         "portfolio", "featured">>), Star(NSet({"\"", "'"})), Set({"\"", "'"}),
         Star(NSet({">"})), Lit(">")>>, TRUE)
\* Lines 928-1031
replaceProjects(t, d) ==
  LET rebuilt(projSec, found) ==
        IF Len(found.cards) > 0
        THEN Stage(replaceStr(t, projSec.full,
                              projSec.openTag
                                \o projectsLoop(projSec.inner, found.cardContainer, found.cards,
                                                cardTemplate(found.cards[1]))
                                \o projSec.closeTag),
                   [d EXCEPT !.projects = TRUE])
        ELSE Stage(t, d)
      section(projSec) ==
        IF projSec.null THEN Stage(t, d) ELSE rebuilt(projSec, projectCards(projSec.inner))
  IN section(findFullSection(t, projPattern))


\* Lines 1035-1040
removablePatterns ==
  << RegExp(<<Lit("<"), Words(<<"section", "div">>), Star(NSet({">"})), Words(<<"id", "class">>),
         Lit("="), Set({"\"", "'"}), Star(NSet({"\"", "'"})), Words(<<"experience",
         "work-history", "employment", "career">>), Star(NSet({"\"", "'"})), Set({"\"",
         "'"}), Star(NSet({">"})), Lit(">")>>, TRUE),
     RegExp(<<Lit("<"), Words(<<"section", "div">>), Star(NSet({">"})), Words(<<"id", "class">>),
         Lit("="), Set({"\"", "'"}), Star(NSet({"\"", "'"})), Words(<<"writing", "blog",
         "posts", "articles", "publications">>), Star(NSet({"\"", "'"})), Set({"\"", "'"}),
         Star(NSet({">"})), Lit(">")>>, TRUE),
     RegExp(<<Lit("<"), Words(<<"section", "div">>), Star(NSet({">"})), Words(<<"id", "class">>),
         Lit("="), Set({"\"", "'"}), Star(NSet({"\"", "'"})), Words(<<"testimonial",
         "reviews", "endorsement">>), Star(NSet({"\"", "'"})), Set({"\"", "'"}),
         Star(NSet({">"})), Lit(">")>>, TRUE),
     RegExp(<<Lit("<"), Words(<<"section", "div">>), Star(NSet({">"})), Words(<<"id", "class">>),
         Lit("="), Set({"\"", "'"}), Star(NSet({"\"", "'"})), Words(<<"education",
         "certification", "award">>), Star(NSet({"\"", "'"})), Set({"\"", "'"}),
         Star(NSet({">"})), Lit(">")>>, TRUE) >>
\* Lines 1042-1048: the body of the loop, for one pattern
removeSection(t, pattern) ==
  LET cut(sec) ==
        IF ~sec.null /\ ~includes(sec.full, "{{#each") /\ ~includes(sec.full, "{{bio}}")
                     /\ ~includes(sec.full, "{{role}}")
        THEN replaceStr(t, sec.full, "")
        ELSE t
  IN cut(findFullSection(t, pattern))
\* Lines 1041-1049
removeSections(t) ==
  LET RECURSIVE loop(_, _)
      loop(s, k) == IF k > Len(removablePatterns) THEN s
                    ELSE loop(removeSection(s, removablePatterns[k]), k + 1)
  IN loop(t, 1)
\* Lines 1052-1053
cleanupNav(t) ==
  replaceAll(
    replaceAll(t, RegExp(<<Lit("<"), Words(<<"li", "a">>), Star(NSet({">"})), Lit(">"), Star(Set(Space)), Lit("<a"),
         Star(NSet({">"})), Lit("href="), Set({"\"", "'"}), Lit("#"), Words(<<"experience",
         "writing", "blog", "education", "testimonial">>), Star(NSet({"\"", "'"})),
         Set({"\"", "'"}), Star(NSet({">"})), Lit(">"), LazyStar(AnyCh), Lit("</"),
         Words(<<"li", "a">>), Lit(">")>>, TRUE), ""),
    RegExp(<<Lit("<a"), Star(NSet({">"})), Lit("href="), Set({"\"", "'"}), Lit("#"),
         Words(<<"experience", "writing", "blog", "education", "testimonial">>),
         Star(NSet({"\"", "'"})), Set({"\"", "'"}), Star(NSet({">"})), Lit(">"),
         LazyStar(AnyCh), Lit("</a>")>>, TRUE), "")
\* Lines 1056-1067: the first match is replaced; the later turns of the
\* loop read the matches after it and change nothing
replaceEmail(t, d) ==
  LET mailto(s) == replaceAll(s, RegExp(<<Lit("mailto:"), Plus(Set(Word \cup {".", "-"})), Lit("@"), Plus(Set(Word \cup {".", "-"})),
         Lit("."), Rep(<<Set(Lower \cup Upper)>>, 2, -1, TRUE)>>, TRUE),
                              "mailto:{{email}}")
      first(emailMatch) ==
        IF emailMatch.ok
        THEN Stage(mailto(replaceStr(t, M0(t, emailMatch), "{{email}}")),
                   [d EXCEPT !.email = TRUE])
        ELSE Stage(mailto(t), d)
  IN first(exec(RegExp(<<Plus(Set(Word \cup {".", "-"})), Lit("@"), Plus(Set(Word \cup {".", "-"})), Lit("."),
         Rep(<<Set(Lower \cup Upper)>>, 2, -1, TRUE)>>, FALSE), t, 0))
\* Lines 1070-1076
replaceSocial(t, d) ==
  LET others(s) ==
        replaceAll(s, RegExp(<<Lit("http"), Opt(<<Lit("s")>>), Lit("://"), Opt(<<Lit("www.")>>), Words(<<"codepen.io",
         "instagram.com", "twitter.com", "dribbble.com", "behance.net", "goodreads.com">>),
         Lit("/"), Plus(Set(Word \cup {".", "-"})), Star(NSet({"\"", "'"}))>>, TRUE), "#")
      marked(s) ==
        Stage(others(s),
              IF test(RegExp(<<Words(<<"{{githubUrl}}", "{{linkedinUrl}}">>)>>, FALSE), s)
              THEN [d EXCEPT !.social = TRUE] ELSE d)
  IN marked(replaceAll(
              replaceAll(t, RegExp(<<Lit("http"), Opt(<<Lit("s")>>), Lit("://github.com/"), Plus(Set(Word \cup {"-"}))>>, TRUE), "{{githubUrl}}"),
              RegExp(<<Lit("http"), Opt(<<Lit("s")>>), Lit("://"), Opt(<<Lit("www.")>>), Lit("linkedin.com/in/"),
         Plus(Set(Word \cup {"-"}))>>, TRUE), "{{linkedinUrl}}"))
\* Lines 1080-1087
cleanupFooter(t) ==
  LET cleaned(footerSec) ==
        IF footerSec.null THEN t
        ELSE replaceStr(t, footerSec.full,
                        footerSec.openTag
                          \o replaceAll(footerSec.inner, RegExp(<<Lit("<p"), Star(NSet({">"})), Lit(">"), LazyStar(AnyCh), Words(<<"designed", "coded",
         "built", "made">>), LazyStar(AnyCh), Words(<<"by", "in">>), LazyStar(AnyCh),
         Lit("</p>")>>, TRUE),
                                        "<p>Built with " \o HEART \o "</p>")
                          \o footerSec.closeTag)
  IN cleaned(findFullSection(t, RegExp(<<Lit("<footer"), Star(NSet({">"})), Lit(">")>>, TRUE)))

\* Lines 1093-1098
heroSection ==
  "\n"
    \o "<section style=\"text-align:center;padding:3rem 1rem;\">\n"
    \o "  <h1>{{name}}</h1>\n"
    \o "  <p style=\"font-size:1.2em;opacity:0.8;\">{{role}}</p>\n"
    \o "  <p style=\"max-width:600px;margin:1rem auto;\">{{bio}}</p>\n"
    \o "</section>"
\* Lines 1090-1104
heroFallback(t, d) ==
  LET placed(bodyMatch) ==
        IF bodyMatch.ok
        THEN Stage(replaceStr(t, G(t, bodyMatch, 1), heroSection \o G(t, bodyMatch, 1)),
                   [d EXCEPT !.name = TRUE, !.role = TRUE, !.bio = TRUE])
        ELSE Stage(t, d)
  IN IF ~d.name /\ ~d.role /\ ~d.bio
     THEN placed(match(t, RegExp(<<Lit("<body"), Star(NSet({">"})), Lit(">"), Cap(1, <<Star(AnyCh)>>), Lit("</body>")>>, TRUE)))
     ELSE Stage(t, d)
\* Lines 1107-1115
skillsSection ==
  "\n"
    \o "<section style=\"padding:2rem 1rem;text-align:center;\">\n"
    \o "  <h2>Skills</h2>\n"
    \o "  <div style=\"display:flex;flex-wrap:wrap;gap:0.5rem;justify-content:center;max-width:600px;margin:0 auto;\">\n"
    \o "    {{#each (split skills \",\")}}\n"
    \o "    <span style=\"background:rgba(100,100,255,0.15);padding:0.3rem 0.8rem;border-radius:20px;font-size:0.9rem;\">{{this}}</span>\n"
    \o "    {{/each}}\n"
    \o "  </div>\n"
    \o "</section>"
\* Lines 1106-1118
skillsFallback(t, d) ==
  IF ~d.skills
  THEN Stage(replaceStr(t, "</body>", skillsSection \o "\n</body>"), [d EXCEPT !.skills = TRUE])
  ELSE Stage(t, d)
\* Lines 1121-1131
projectsSection ==
  "\n"
    \o "<section style=\"padding:2rem 1rem;max-width:800px;margin:0 auto;\">\n"
    \o "  <h2 style=\"text-align:center;\">Projects</h2>\n"
    \o "  {{#each projects}}\n"
    \o "  <div style=\"background:rgba(255,255,255,0.05);border:1px solid rgba(255,255,255,0.1);border-radius:12px;padding:1.5rem;margin:1rem 0;\">\n"
    \o "    <h3>{{this.title}}</h3>\n"
    \o "    <p>{{this.description}}</p>\n"
    \o "    {{#if this.link}}<a href=\"{{this.link}}\" target=\"_blank\">View Project " \o ARROW \o "</a>{{/if}}\n"
    \o "  </div>\n"
    \o "  {{/each}}\n"
    \o "</section>"
\* Lines 1120-1134
projectsFallback(t, d) ==
  IF ~d.projects
  THEN Stage(replaceStr(t, "</body>", projectsSection \o "\n</body>"),
             [d EXCEPT !.projects = TRUE])
  ELSE Stage(t, d)
\* Lines 1137-1145
contactSection ==
  "\n"
    \o "<section style=\"padding:2rem 1rem;text-align:center;\">\n"
    \o "  {{#if email}}<p>" \o ENVELOPE \o " <a href=\"mailto:{{email}}\">{{email}}</a></p>{{/if}}\n"
    \o "  <div style=\"display:flex;gap:1rem;justify-content:center;margin-top:0.5rem;\">\n"
    \o "    {{#if githubUrl}}<a href=\"{{githubUrl}}\" target=\"_blank\">GitHub</a>{{/if}}\n"
    \o "    {{#if linkedinUrl}}<a href=\"{{linkedinUrl}}\" target=\"_blank\">LinkedIn</a>{{/if}}\n"
    \o "  </div>\n"
    \o "</section>\n"
    \o "</body>"
\* Lines 1136-1149
contactFallback(t, d) ==
  IF ~d.email
  THEN Stage(replaceStr(replaceStr(t, "</body>", contactSection), "</body></body>", "</body>"),
             [d EXCEPT !.email = TRUE, !.social = TRUE])
  ELSE Stage(t, d)

----------------------------------------------------------------------------
(* The call convertHTMLToTemplate(html, origin), one stage per step        *)

MaxParts == 2
\* Parts of a document body
Parts ==
  <<"<h1>John Doe</h1>",
    "<h2>Web Developer</h2>",
    "<section id=\"about\"><p>I am John Doe and I build things.</p></section>",
    "<div class=\"skills\"><ul><li>JS</li><li>Go</li></ul></div>",
    "<section id=\"projects\"><ul><li><h3>Shop</h3><p>An online shop for books.</p></li></ul></section>",
    "<div id=\"experience\"><p>Acme Inc, 2019</p></div>",
    "<a href=\"mailto:jd@ex.com\">jd@ex.com</a>",
    "<footer><p>Built by John Doe</p><a href=\"https://github.com/jd\">gh</a></footer>",
    "<img src=\"a.png\">",
    "<div class=\"about\">">>
BareImage == "<body><img></body>"
UpperBody == "<BODY><img></BODY>"
HeadingOnly == "<body><h1>John Doe</h1></body>"
BlogLink == "<a href=\"#blog\">x</a>"
OnlyRemovable == "<div class=\"blog\"><p>My first post</p></div>"
Malformed == "<body><div class=\"about\"><p>No closing tag for this region.<img src=\"ws://\"></body>"
Page ==
  "<html><head><title>John</title><link rel=\"stylesheet\" href=\"/a.css\">"
    \o "<style>p{}</style><script src=\"a.js\"></script></head><body>"
    \o "<nav><li><a href=\"#blog\">Blog</a></li></nav>"
    \o "<h1 class=\"n\">J. Doe (PhD)</h1><p class=\"tagline\">Full-stack engineer</p>"
    \o "<div class=\"intro\"><div><p>J. Doe (PhD) builds web things.</p></div></div>"
    \o "<div class=\"tech\"><span>JS</span><span>Go</span><span>C</span></div>"
    \o "<div class=\"work\"><article><strong>Shop</strong> An online shop for books"
    \o "<a href=\"shop/\">go</a></article></div>"
    \o "<section class=\"blog\"><p>Post</p></section>"
    \o "<a href=\"https://linkedin.com/in/jd\">in</a> jd@ex.com"
    \o "<footer><p>Made by me</p></footer></body></html>"
\* A name of two characters that the text repeats
ShortName == "<body><h1>Al</h1><p>Al builds things</p></body>"
\* A heading without a role word before one with a role word
LaterRoleHeading == "<body><h2>Hello there</h2><h2>Web Developer</h2></body>"
\* A projects section with a list that holds no card, and a card beside it
ListBesideCards ==
  "<body><section id=\"projects\"><ul><li>2024</li></ul>"
    \o "<article><h3>Shop</h3><p>An online shop for books.</p></article></section></body>"
\* A removable section that holds the h1
NameInRemovable == "<body><div class=\"blog\"><h1>John Doe</h1></div></body>"
\* Two removable sections of one keyword group
TwoOfOneGroup ==
  "<body><div id=\"experience\"><p>Acme Inc</p></div>"
    \o "<section class=\"career\"><p>My path</p></section></body>"
Documents ==
  {"", "<img>", BareImage, UpperBody, HeadingOnly, BlogLink, OnlyRemovable, Malformed, Page,
   ShortName, LaterRoleHeading, ListBesideCards, NameInRemovable, TwoOfOneGroup,
   "<body><h1 class=\"$&\">A+B (C)</h1><p>A+B (C)</p><img src=\"ws://\"></body>",
   "<head></head><body><a href=\"./x/../b.html\">b</a><img src='/i/c.png'></body>"}
    \cup {"<body>" \o Concat(Parts, q) \o "</body>" : q \in FragSeqs(Parts, MaxParts)}
\* The calls: every document with an http origin, those with a relative URL
\* also with the origin of a URL that has none
ConvertCalls ==
  {<<doc, "https://ex.com">> : doc \in Documents}
    \cup {<<doc, "null">> : doc \in {d \in Documents : includes(d, "src=")}}

CIdle ==
  /\ html = "" /\ origin = "" /\ tpl = "" /\ detected = noneDetected
  /\ origPersonName = "" /\ cpc = "idle" /\ ret = Null
CInit ==
  /\ \E call \in ConvertCalls : html = call[1] /\ origin = call[2]
  /\ tpl = "" /\ detected = noneDetected /\ origPersonName = "" /\ cpc = "call" /\ ret = Null

\* Lines 783-784
ConvertBegin ==
  /\ cpc = "call"
  /\ tpl' = html
  /\ detected' = noneDetected
  /\ cpc' = "scripts"
  /\ UNCHANGED <<html, origin, origPersonName, ret, fvars, rvars, hvars, tvars>>
\* Line 787
RemoveScripts ==
  /\ cpc = "scripts"
  /\ tpl' = removeScripts(tpl)
  /\ cpc' = "stylesheets"
  /\ UNCHANGED <<html, origin, detected, origPersonName, ret, fvars, rvars, hvars, tvars>>
\* Lines 790-792
RemoveStylesheets ==
  /\ cpc = "stylesheets"
  /\ tpl' = removeStylesheets(tpl)
  /\ cpc' = "urls"
  /\ UNCHANGED <<html, origin, detected, origPersonName, ret, fvars, rvars, hvars, tvars>>
\* Lines 795-800: an exception of the callback ends the call
AbsolutizeUrls ==
  /\ cpc = "urls"
  /\ \E r \in {absolutizeUrls(tpl, origin)} :
       /\ tpl' = r.tpl
       /\ cpc' = IF r.threw THEN "thrown" ELSE "css"
  /\ UNCHANGED <<html, origin, detected, origPersonName, ret, fvars, rvars, hvars, tvars>>
\* Lines 803-807
InjectCssLink ==
  /\ cpc = "css"
  /\ tpl' = injectCssLink(tpl)
  /\ cpc' = "h1"
  /\ UNCHANGED <<html, origin, detected, origPersonName, ret, fvars, rvars, hvars, tvars>>
\* Lines 810-821
ReplaceName ==
  /\ cpc = "h1"
  /\ origPersonName' = personName(tpl)
  /\ \E r \in {replaceName(tpl, detected)} : tpl' = r.tpl /\ detected' = r.detected
  /\ cpc' = "cleanup"
  /\ UNCHANGED <<html, origin, ret, fvars, rvars, hvars, tvars>>
\* Lines 824-828: an exception of the RegExp constructor ends the call
CleanupName ==
  /\ cpc = "cleanup"
  /\ \E r \in {cleanupName(tpl, origPersonName)} :
       /\ tpl' = r.tpl
       /\ cpc' = IF r.threw THEN "thrown" ELSE "title"
  /\ UNCHANGED <<html, origin, detected, origPersonName, ret, fvars, rvars, hvars, tvars>>
\* Line 831
ReplaceTitle ==
  /\ cpc = "title"
  /\ tpl' = replaceTitle(tpl)
  /\ cpc' = "role"
  /\ UNCHANGED <<html, origin, detected, origPersonName, ret, fvars, rvars, hvars, tvars>>
\* Lines 834-861
ReplaceRole ==
  /\ cpc = "role"
  /\ \E r \in {replaceRole(tpl, detected)} : tpl' = r.tpl /\ detected' = r.detected
  /\ cpc' = "about"
  /\ UNCHANGED <<html, origin, origPersonName, ret, fvars, rvars, hvars, tvars>>
\* Lines 864-887
ReplaceAbout ==
  /\ cpc = "about"
  /\ \E r \in {replaceAbout(tpl, detected)} : tpl' = r.tpl /\ detected' = r.detected
  /\ cpc' = "skills"
  /\ UNCHANGED <<html, origin, origPersonName, ret, fvars, rvars, hvars, tvars>>
\* Lines 890-925
ReplaceSkills ==
  /\ cpc = "skills"
  /\ \E r \in {replaceSkills(tpl, detected)} : tpl' = r.tpl /\ detected' = r.detected
  /\ cpc' = "projects"
  /\ UNCHANGED <<html, origin, origPersonName, ret, fvars, rvars, hvars, tvars>>
\* Lines 928-1031
ReplaceProjects ==
  /\ cpc = "projects"
  /\ \E r \in {replaceProjects(tpl, detected)} : tpl' = r.tpl /\ detected' = r.detected
  /\ cpc' = "removable"
  /\ UNCHANGED <<html, origin, origPersonName, ret, fvars, rvars, hvars, tvars>>
\* Lines 1035-1049
RemoveSections ==
  /\ cpc = "removable"
  /\ tpl' = removeSections(tpl)
  /\ cpc' = "nav"
  /\ UNCHANGED <<html, origin, detected, origPersonName, ret, fvars, rvars, hvars, tvars>>
\* Lines 1052-1053
CleanupNav ==
  /\ cpc = "nav"
  /\ tpl' = cleanupNav(tpl)
  /\ cpc' = "email"
  /\ UNCHANGED <<html, origin, detected, origPersonName, ret, fvars, rvars, hvars, tvars>>
\* Lines 1056-1067
ReplaceEmail ==
  /\ cpc = "email"
  /\ \E r \in {replaceEmail(tpl, detected)} : tpl' = r.tpl /\ detected' = r.detected
  /\ cpc' = "social"
  /\ UNCHANGED <<html, origin, origPersonName, ret, fvars, rvars, hvars, tvars>>
\* Lines 1070-1076
ReplaceSocial ==
  /\ cpc = "social"
  /\ \E r \in {replaceSocial(tpl, detected)} : tpl' = r.tpl /\ detected' = r.detected
  /\ cpc' = "footer"
  /\ UNCHANGED <<html, origin, origPersonName, ret, fvars, rvars, hvars, tvars>>
\* Lines 1080-1087
CleanupFooter ==
  /\ cpc = "footer"
  /\ tpl' = cleanupFooter(tpl)
  /\ cpc' = "hero"
  /\ UNCHANGED <<html, origin, detected, origPersonName, ret, fvars, rvars, hvars, tvars>>
\* Lines 1090-1104
HeroFallback ==
  /\ cpc = "hero"
  /\ \E r \in {heroFallback(tpl, detected)} : tpl' = r.tpl /\ detected' = r.detected
  /\ cpc' = "skillsFallback"
  /\ UNCHANGED <<html, origin, origPersonName, ret, fvars, rvars, hvars, tvars>>
\* Lines 1106-1118
SkillsFallback ==
  /\ cpc = "skillsFallback"
  /\ \E r \in {skillsFallback(tpl, detected)} : tpl' = r.tpl /\ detected' = r.detected
  /\ cpc' = "projectsFallback"
  /\ UNCHANGED <<html, origin, origPersonName, ret, fvars, rvars, hvars, tvars>>
\* Lines 1120-1134
ProjectsFallback ==
  /\ cpc = "projectsFallback"
  /\ \E r \in {projectsFallback(tpl, detected)} : tpl' = r.tpl /\ detected' = r.detected
  /\ cpc' = "contactFallback"
  /\ UNCHANGED <<html, origin, origPersonName, ret, fvars, rvars, hvars, tvars>>
\* Lines 1136-1149
ContactFallback ==
  /\ cpc = "contactFallback"
  /\ \E r \in {contactFallback(tpl, detected)} : tpl' = r.tpl /\ detected' = r.detected
  /\ cpc' = "return"
  /\ UNCHANGED <<html, origin, origPersonName, ret, fvars, rvars, hvars, tvars>>
\* Line 1151
ConvertReturn ==
  /\ cpc = "return"
  /\ ret' = [null |-> FALSE, template |-> tpl, detectedSections |-> detected]
  /\ cpc' = "done"
  /\ returned' = Append(returned, Returns("convertHTMLToTemplate", <<html, origin>>, ret'))
  /\ UNCHANGED <<html, origin, tpl, detected, origPersonName, fvars, rvars, calls, tvars>>
CNext ==
  \/ ConvertBegin \/ RemoveScripts \/ RemoveStylesheets \/ AbsolutizeUrls \/ InjectCssLink
  \/ ReplaceName \/ CleanupName \/ ReplaceTitle \/ ReplaceRole \/ ReplaceAbout
  \/ ReplaceSkills \/ ReplaceProjects \/ RemoveSections \/ CleanupNav \/ ReplaceEmail
  \/ ReplaceSocial \/ CleanupFooter \/ HeroFallback \/ SkillsFallback \/ ProjectsFallback
  \/ ContactFallback \/ ConvertReturn

----------------------------------------------------------------------------
(* getCompiledTemplate(templateName), and the calls that run at a time     *)

MaxRequests == 3
\* The names asked for: a built-in template, a cloned one, and a name
\* without a directory
TemplateNames == {"minimal", "cloned-1a2b3c4d", "missing"}
OnDisk == {"minimal", "cloned-1a2b3c4d"}
\* Lines 81-82
tplPath(templateName) == "templates/" \o templateName \o "/index.hbs"
cssPath(templateName) == "templates/" \o templateName \o "/style.css"
\* fs.readFile(path, 'utf8'): the text of the file, or a rejection
readFile(path) ==
  IF \E name \in OnDisk : path \in {tplPath(name), cssPath(name)}
  THEN [threw |-> FALSE, value |-> "text of " \o path]
  ELSE [threw |-> TRUE]
\* Handlebars.compile(tplSrc)
compile(tplSrc) == [template |-> tplSrc]
\* templateCache.set(key, entry)
cacheSet(cache, key, entry) ==
  [k \in DOMAIN cache \cup {key} |-> IF k = key THEN entry ELSE cache[k]]
NotCalled == [pc |-> "idle"]

\* Lines 83-93: the call after its await, the files read or not
readFilesDone(cache, templateName) ==
  LET made(tplSrc, cssSrc) ==
        IF tplSrc.threw \/ cssSrc.threw
        THEN [threw |-> TRUE, cache |-> cache]
        ELSE [threw |-> FALSE,
              entry |-> [compiled |-> compile(tplSrc.value), cssSrc |-> cssSrc.value],
              cache |-> IF ~startsWith(templateName, "cloned-")
                        THEN cacheSet(cache, templateName,
                                      [compiled |-> compile(tplSrc.value),
                                       cssSrc |-> cssSrc.value])
                        ELSE cache]
  IN made(readFile(tplPath(templateName)), readFile(cssPath(templateName)))

HIdle == returned = <<>> /\ calls = 0
\* One call made and running
HOne == returned = <<>> /\ calls = 1
TIdle ==
  /\ templateCache = <<>>
  /\ pending = [c \in 1..MaxRequests |-> NotCalled]
  /\ reads = [name \in TemplateNames |-> 0]
\* Lines 77-86: the call up to its await; an entry of the cache is returned
\* at once, else the two files are asked for
GetCompiledTemplate(c, templateName) ==
  /\ pending[c].pc = "idle"
  /\ IF templateName \in DOMAIN templateCache
     THEN /\ pending' = [pending EXCEPT ![c] = [pc |-> "done", templateName |-> templateName,
                                                entry |-> templateCache[templateName]]]
          /\ UNCHANGED reads
     ELSE /\ pending' = [pending EXCEPT ![c] = [pc |-> "await", templateName |-> templateName]]
          /\ reads' = [reads EXCEPT ![templateName] = @ + 1]
  /\ UNCHANGED <<templateCache, fvars, rvars, cvars, hvars>>
\* Lines 83-93: the reads are settled and the call goes on
ReadFilesDone(c) ==
  /\ pending[c].pc = "await"
  /\ \E r \in {readFilesDone(templateCache, pending[c].templateName)} :
       /\ templateCache' = r.cache
       /\ pending' = [pending EXCEPT ![c] =
                        IF r.threw THEN [pc |-> "thrown", templateName |-> @.templateName]
                        ELSE [pc |-> "done", templateName |-> @.templateName,
                              entry |-> r.entry]]
  /\ UNCHANGED <<reads, fvars, rvars, cvars, hvars>>
TNext ==
  \/ \E c \in 1..MaxRequests, templateName \in TemplateNames : GetCompiledTemplate(c, templateName)
  \/ \E c \in 1..MaxRequests : ReadFilesDone(c)

\* Calls of extractResumeData and convertHTMLToTemplate one after another.
\* Both functions are synchronous: a call begins when no other is running.
\* The locals of the call before are still what that call left.
MaxCalls == 3
CallTexts == {ProjectExample, GoOnOwnLine, "Skills\nC, Go"}
CallDocuments == {HeadingOnly, TwoOfOneGroup, "<body>" \o Parts[5] \o Parts[7] \o "</body>"}
NoCallRunning == rpc = "done" /\ cpc \in {"idle", "done", "thrown"}
CallExtract ==
  /\ NoCallRunning
  /\ calls < MaxCalls
  /\ text' \in CallTexts
  /\ rpc' = "call"
  /\ calls' = calls + 1
  /\ UNCHANGED <<lines, data, proj, returned, fvars, cvars, tvars>>
CallConvert ==
  /\ NoCallRunning
  /\ calls < MaxCalls
  /\ html' \in CallDocuments
  /\ origin' = "https://ex.com"
  /\ cpc' = "call"
  /\ calls' = calls + 1
  /\ UNCHANGED <<tpl, detected, origPersonName, ret, returned, fvars, rvars, tvars>>

----------------------------------------------------------------------------
(* The specifications: one call of one function, calls in sequence, and    *)
(* the calls of getCompiledTemplate                                        *)

FStart == FInit /\ RIdle /\ CIdle /\ HIdle /\ TIdle
RStart == RInit /\ FIdle /\ CIdle /\ HOne /\ TIdle
CStart == CInit /\ FIdle /\ RIdle /\ HOne /\ TIdle
Start == /\ (RInit /\ CIdle) \/ (CInit /\ RIdle)
         /\ FIdle /\ HOne /\ TIdle
SeqStart == RIdle /\ CIdle /\ FIdle /\ HIdle /\ TIdle
TStart == TIdle /\ RIdle /\ CIdle /\ FIdle /\ HIdle
FSpec == FStart /\ [][FNext]_vars
RSpec == RStart /\ [][RNext]_vars
CSpec == CStart /\ [][CNext]_vars
Spec == Start /\ [][RNext \/ CNext]_vars
SeqSpec == SeqStart /\ [][CallExtract \/ CallConvert \/ RNext \/ CNext]_vars
TSpec == TStart /\ [][TNext]_vars

----------------------------------------------------------------------------
(* Properties of findFullSection                                           *)

\* The opener's first match in the source of the call.
OpenerMatch == exec(Openers[fopen], fsrc, 0)
\* The tags of the opener's name that follow the opening tag, in order, the
\* self-closing ones left out: <<offset, end offset, closing?>>.
TagsAfterOpener ==
  LET m == OpenerMatch
      rest == substring(fsrc, m.e, Len(fsrc))
      hits == matchAll(rest, scanRegExp(tagNameOf(M0(fsrc, m))))
      kept == SelectSeq2(hits, [j \in 1..Len(hits) |-> ~endsWith(M0(rest, hits[j]), "/>")])
  IN [j \in 1..Len(kept) |-> <<m.e + kept[j].index, m.e + kept[j].e, G(rest, kept[j], 1) = "/">>]
\* The nesting depth after the first j of these tags, the opener counted.
Balance(tags, j) ==
  1 + Cardinality({i \in 1..j : ~tags[i][3]}) - Cardinality({i \in 1..j : tags[i][3]})
Closers(tags) == {j \in 1..Len(tags) : Balance(tags, j) = 0}

\* C5: when the element matched by the opener holds nested elements of its
\* own tag name, the region ends at the opener's own closing tag, the first
\* closing tag at which the depth, counted from 1, is back at 0: inner runs
\* up to that tag, nested elements and the text after them included, and end
\* is the offset just after it.  On the source
\* <div class="about"><div>nested</div>real bio text here</div> the region
\* is the whole source.
NestedRegionEndsAtOwnClose ==
  (find.pc = "done" /\ ~find.res.null) =>
     LET tags == TagsAfterOpener
         own == MinOf(Closers(tags))
     IN /\ Closers(tags) # {}
        /\ find.res.end = tags[own][2]
        /\ find.res.inner = substring(fsrc, OpenerMatch.e, tags[own][1])
        /\ find.res.start = OpenerMatch.index
        /\ (fsrc = NestedExample /\ fopen = "about") =>
              /\ find.res.inner = "<div>nested</div>real bio text here"
              /\ find.res.end = Len(NestedExample)
NestedRegionFound ==
  /\ find.pc = "done" /\ ~find.res.null
  /\ fsrc = NestedExample /\ fopen = "about"
  /\ includes(find.res.inner, "</div>real bio")

\* C6: findFullSection returns null exactly when the opener matches nowhere
\* in the source or the depth never returns to 0 before the source ends.
NullIffNoOpenerOrUnbalanced ==
  (find.pc = "done") =>
     (find.res.null <=> (~OpenerMatch.ok \/ Closers(TagsAfterOpener) = {}))
UnbalancedGivesNull ==
  /\ find.pc = "done" /\ find.res.null
  /\ OpenerMatch.ok
  /\ \E j \in 1..Len(TagsAfterOpener) : TagsAfterOpener[j][3]

----------------------------------------------------------------------------
(* Properties of extractResumeData                                         *)

Elems(arr) == {arr[j] : j \in 1..Len(arr)}
\* The characters of s that belong to S, in order.
Only(s, S) ==
  LET RECURSIVE f(_, _)
      f(a, b) == IF a > b THEN ""
                 ELSE IF a = b THEN (IF SubSeq(s, a, a) \in S THEN SubSeq(s, a, a) ELSE "")
                 ELSE f(a, (a + b) \div 2) \o f((a + b) \div 2 + 1, b)
  IN f(1, Len(s))
\* The text in lower case, the subject of the case-insensitive skill rules.
LowText == toLowerCase(text)
\* A c that stands alone, no letter, digit, _, + or # after it.
BareC(s) ==
  \E i \in 0..(Len(s) - 1) :
     /\ charAt(s, i) = "c"
     /\ charAt(s, i - 1) \notin Word
     /\ charAt(s, i + 1) \notin Word \cup {"+", "#"}
\* The word go at offset i of s.
GoAt(s, i) ==
  startsWithAt(s, "go", i) /\ charAt(s, i - 1) \notin Word
Blanks(s, a, b) == \A k \in a..(b - 1) : charAt(s, k) \in Space
Delimiters == {",", ";", "|", BULLET, "\n"}
\* The word go followed, after optional white space, by a delimiter.
GoDelimited(s) ==
  \E i \in 0..(Len(s) - 1) :
     /\ GoAt(s, i)
     /\ charAt(s, i + 2) \notin Word
     /\ \E j \in (i + 2)..(Len(s) - 1) : Blanks(s, i + 2, j) /\ charAt(s, j) \in Delimiters
\* golang, or go lang with white space between, as a word.
GoLang(s) ==
  \E i \in 0..(Len(s) - 1) :
     /\ GoAt(s, i)
     /\ \E j \in (i + 2)..Len(s) :
           Blanks(s, i + 2, j) /\ startsWithAt(s, "lang", j) /\ charAt(s, j + 4) \notin Word
SkillsMatched == rpc = "raw"

NameText(line) == trim(Only(line, Word \cup Space \cup {".", "-"}))
\* The number of white-space separated tokens of a trimmed, non-empty string.
Tokens(s) ==
  Cardinality({k \in 1..Len(s) : SubSeq(s, k, k) \notin Space
                                   /\ (k = 1 \/ SubSeq(s, k - 1, k - 1) \in Space)})
HeaderWords ==
  {"summary", "about", "profile", "objective", "experience", "education", "skills",
   "projects", "work", "certif", "contact", "interests", "hobbies", "achievements",
   "awards", "languages", "references"}
\* Every condition on a name candidate.
Acceptable(line) ==
  /\ Len(NameText(line)) >= 3
  /\ Len(NameText(line)) <= 50
  /\ Only(NameText(line), Digit) = ""
  /\ ~includes(line, "@")
  /\ \A u \in {"http", "www.", ".com", ".org"} : ~includes(toLowerCase(line), u)
  /\ \A w \in {"phone", "email", "address", "linkedin", "github"} :
        ~includes(toLowerCase(line), w)
  /\ \A h \in HeaderWords : ~startsWith(toLowerCase(NameText(line)), h)
  /\ Tokens(NameText(line)) >= 2
  /\ Tokens(NameText(line)) <= 5
FirstAcceptable == {k \in 1..Min(8, Len(lines)) : Acceptable(lines[k])}

\* C8: name is the punctuation-stripped text of the first of the first 8
\* non-empty lines that meets every candidate condition; when none does, it
\* is the first line without its punctuation, trimmed and cut to 50
\* characters.  "Jane Alice Doe / Software Engineer / jane@example.com" on
\* three lines gives that name, a role with Engineer and that email.
FirstAcceptableLineIsName ==
  (rpc = "done") =>
     /\ FirstAcceptable # {} => data.name = NameText(lines[MinOf(FirstAcceptable)])
     /\ (FirstAcceptable = {} /\ lines # <<>>) =>
           data.name = substring(trim(Only(lines[1], Word \cup Space)), 0, 50)
     /\ text = NameExample =>
           /\ data.name = "Jane Alice Doe"
           /\ includes(data.role, "Engineer")
           /\ data.email = "jane@example.com"
NameBeforeLaterCandidate ==
  /\ rpc = "done"
  /\ Cardinality(FirstAcceptable) >= 2
  /\ data.name = NameText(lines[MinOf(FirstAcceptable)])
  /\ data.name # NameText(lines[MaxOf(FirstAcceptable)])

\* The first separator of a title line, or its end.
SeparatorAt(line) ==
  MinOf({k \in 0..Len(line) : k = Len(line) \/ charAt(line, k) \in {"|", ENDASH, EMDASH}})
\* C9: a project's title is the text of its title line before the first |,
\* en dash or em dash, its interior characters kept; the projects section
\* "E-Commerce Platform | React, Node", "Built a scalable store with 10k
\* users. https://github.com/x/y", "AI Tasks", "Developed a task app." gives
\* two projects, the first titled "E-Commerce Platform" with the link
\* https://github.com/x/y and a description with "scalable store", the second
\* titled "AI Tasks".
TitleIsTextBeforeSeparator ==
  (rpc = "done") =>
     /\ (proj.found /\ Len(data.projects) > 0 /\ Len(proj.projectLines) > 0
           /\ isLikelyTitle(proj.projectLines[1])) =>
           data.projects[1].title =
              trim(substring(proj.projectLines[1], 0, SeparatorAt(proj.projectLines[1])))
     /\ text = ProjectExample =>
           /\ Len(data.projects) = 2
           /\ data.projects[1].title = "E-Commerce Platform"
           /\ data.projects[1].link = "https://github.com/x/y"
           /\ includes(data.projects[1].description, "scalable store")
           /\ data.projects[2].title = "AI Tasks"

\* C10: a stage that finds nothing leaves its field at the empty default;
\* for the empty string and for a text of blank lines only, every string
\* field of the returned record is "" and skills and projects are empty.
NothingFoundLeavesDefaults ==
  (rpc = "done") =>
     /\ ~includes(text, "@") => data.email = ""
     /\ Only(text, Digit) = "" => data.phone = ""
     /\ ~includes(LowText, "linkedin.com/in/") => data.linkedin = ""
     /\ ~includes(LowText, "github.com/") => data.github = ""
     /\ ~proj.found => data.projects = <<>>
     /\ Only(text, Space) = text =>
           /\ \A f \in {"name", "role", "bio", "summary", "email", "phone", "github",
                        "linkedin"} : data[f] = ""
           /\ data.skills = <<>>
           /\ data.projects = <<>>
BlankTextGivesEmptyRecord ==
  /\ rpc = "done"
  /\ text # "" /\ Only(text, Space) = text
  /\ data = emptyData


----------------------------------------------------------------------------
(* Properties of convertHTMLToTemplate                                     *)

SectionKeys == {"name", "role", "bio", "skills", "projects", "email", "social"}
Returned == cpc = "done"

\* C1: for every html and origin the returned detectedSections has all seven
\* keys (name, role, bio, skills, projects, email, social) true.
AllSectionsDetected ==
  Returned =>
     /\ DOMAIN ret.detectedSections = SectionKeys
     /\ \A key \in SectionKeys : ret.detectedSections[key]

\* A document without headings, classed sections and paragraphs.
Plain(doc) ==
  /\ ~test(RegExp(<<Lit("<h"), Set({"1", "2", "3", "4", "5", "6"})>>, TRUE), doc)
  /\ ~test(RegExp(<<Set(Space), Words(<<"class", "id">>), Star(Set(Space)), Lit("=")>>, TRUE), doc)
  /\ ~test(RegExp(<<Lit("<p"), Set(Space \cup {">"})>>, TRUE), doc)
\* C2: for every document with no headings, no classed sections and no
\* paragraphs (for example <body><img></body>) the returned template holds
\* {{name}}, {{role}}, {{bio}}, an each-loop over skills and an each-loop
\* over projects.
PlainDocumentGetsSkeleton ==
  (Returned /\ Plain(html)) =>
     /\ includes(ret.template, "{{name}}")
     /\ includes(ret.template, "{{role}}")
     /\ includes(ret.template, "{{bio}}")
     /\ includes(ret.template, "{{#each (split skills")
     /\ includes(ret.template, "{{#each projects}}")

ResumeFields ==
  {"name", "role", "bio", "summary", "email", "phone", "github", "linkedin", "skills",
   "projects"}
\* The URL constructor throws for an address of the stage at lines 795-800.
UrlThrows(t, org) ==
  LET some(ms) == \E j \in 1..Len(ms) : newURL(G(t, ms[j], 2), org).threw
  IN some(matchAll(t, RegExp(<<Cap(1, <<Words(<<"src", "href">>)>>), Lit("="), Set({"\"", "'"}),
                               Cap(2, <<Plus(NSet({"\"", "'"}))>>), Set({"\"", "'"})>>, TRUE)))
\* A region of the about patterns opens in t and never closes.
Unbalanced(t) == test(aboutPattern, t) /\ findFullSection(t, aboutPattern).null
\* C3: for every string input extractResumeData and convertHTMLToTemplate
\* return normally, no exception escaping, also when a region is malformed
\* or unbalanced, and every declared field of the result is present and not
\* undefined.
ReturnsWithEveryField ==
  /\ cpc # "thrown"
  /\ Returned =>
        /\ ~ret.null
        /\ {"template", "detectedSections"} \subseteq DOMAIN ret
        /\ ret.template # Undefined
        /\ DOMAIN ret.detectedSections = SectionKeys
        /\ \A key \in SectionKeys : ret.detectedSections[key] \in BOOLEAN
  /\ (rpc = "done") =>
        /\ DOMAIN data = ResumeFields
        /\ \A f \in ResumeFields \ {"skills", "projects"} : data[f] # Undefined
        /\ \A j \in 1..Len(data.skills) : data.skills[j] # Undefined
        /\ \A j \in 1..Len(data.projects) :
              /\ DOMAIN data.projects[j] = {"title", "description", "link"}
              /\ \A f \in DOMAIN data.projects[j] : data.projects[j][f] # Undefined
UnbalancedAndThrownUrlReturned ==
  /\ Returned
  /\ Unbalanced(html)
  /\ UrlThrows(html, origin)
  /\ includes(ret.template, "<div class=\"about\">")
  /\ includes(ret.template, "src=\"ws://\"")

\* C4: for every html, the empty string and a document that lies inside a
\* removable section included, the returned template is not the empty string.
TemplateNonEmpty == Returned => ret.template # ""


----------------------------------------------------------------------------
(* Properties of extractResumeData: the role, the sections and the lists   *)

\* The characters of s that do not belong to S, in order.
Without(s, S) ==
  LET RECURSIVE f(_, _)
      f(a, b) == IF a > b THEN ""
                 ELSE IF a = b THEN (IF SubSeq(s, a, a) \in S THEN "" ELSE SubSeq(s, a, a))
                 ELSE f(a, (a + b) \div 2) \o f((a + b) \div 2 + 1, b)
  IN f(1, Len(s))
\* The line the name was taken from: the first acceptable one, else the first.
NameLine == IF FirstAcceptable # {} THEN MinOf(FirstAcceptable) ELSE 1
\* The role a line gives.
RoleText(line) == trim(Without(line, {BULLET, "-", "|"}))

\* C11: role is never taken from the line the name was taken from, also
\* when that line holds punctuation that the name detection stripped: it is
\* the role text of another of the scanned lines.
RoleFromAnotherLine ==
  (rpc = "done" /\ data.role # "" /\ lines # <<>>) =>
     \E k \in (1..Min(10, Len(lines))) \ {NameLine} : data.role = RoleText(lines[k])

\* A header line: it matches the header pattern and has under 40 characters.
HeaderLine(line) == test(sectionPattern, headerClean(line)) /\ Len(headerClean(line)) < 40
HeadersAfter(start) == {i \in (start + 1)..(Len(lines) - 1) : HeaderLine(lines[i + 1])}
\* C16: getSectionEnd(start) is the smaller of the index of the next header
\* line after start and start + 30, bounded by the number of lines: no
\* section spans more than 30 lines from its header.
SectionEndWithin30 ==
  (rpc = "done") =>
     \A start \in {i \in 0..(Len(lines) - 1) : HeaderLine(lines[i + 1])} :
        getSectionEnd(lines, start) =
           Min(IF HeadersAfter(start) # {} THEN MinOf(HeadersAfter(start)) ELSE Len(lines),
               Min(start + 30, Len(lines)))

NoDuplicates(seq) == \A i, j \in 1..Len(seq) : i # j => seq[i] # seq[j]
\* The rules whose detector matches the scan surface, in table order.
VocabularyHits ==
  LET hit(surface) == SelectSeq(skillDefinitions, LAMBDA rule : execOn(rule.pattern, surface, 0).ok)
  IN hit(toLowerCase(skillsTextOf(text, lines)))
\* C17: skills holds no duplicate; when a vocabulary rule matches, skills is
\* the labels of the matching rules in table order; from the raw-token
\* fallback it has at most 20 entries.
SkillsOrderedAndCapped ==
  (rpc = "done") =>
     \A hits \in {VocabularyHits} :
        /\ NoDuplicates(data.skills)
        /\ Len(hits) > 0 => data.skills = [k \in 1..Len(hits) |-> hits[k].name]
        /\ Len(hits) = 0 => Len(data.skills) <= 20
RawSkillsCutAt20 ==
  /\ rpc = "done"
  /\ Cardinality({k \in 1..Len(text) : SubSeq(text, k, k) = ","}) > 20
  /\ Len(data.skills) = 20
  /\ NoDuplicates(data.skills)
  /\ Len(VocabularyHits) = 0

\* C18: at most 5 projects, each with a title of at most 100 characters and
\* a description of at most 300 characters.
ProjectsBounded ==
  (rpc = "done") =>
     /\ Len(data.projects) <= 5
     /\ \A j \in 1..Len(data.projects) :
           /\ Len(data.projects[j].title) <= 100
           /\ Len(data.projects[j].description) <= 300
SixthProjectDropped ==
  /\ rpc = "done"
  /\ Len(proj.projects) >= 5
  /\ ~proj.currentProject.null
  /\ Len(data.projects) = 5
  /\ \E j \in 1..5 : Len(data.projects[j].description) = 300

\* C19: bio and summary are the same string, of at most 500 characters.
BioIsSummary ==
  (rpc = "done") => data.bio = data.summary /\ Len(data.bio) <= 500
LongSummaryCutAt500 ==
  /\ rpc = "done"
  /\ Len(text) > 500
  /\ Len(data.bio) = 500
  /\ data.summary = data.bio

\* The lines of the projects section that are classified as a title.
TitleLines ==
  {k \in 1..Len(proj.projectLines) :
     isLikelyTitle(bulletStripped(proj.projectLines[k]))
       /\ Len(bulletStripped(proj.projectLines[k])) > 3}
\* C20: without a projects header, or without a title line in the projects
\* section, projects is empty; the title of every project is text of a
\* title line of the section.
NoSynthesizedProject ==
  (rpc = "done") =>
     /\ (~proj.found \/ TitleLines = {}) => data.projects = <<>>
     /\ \A j \in 1..Len(data.projects) :
           /\ data.projects[j].title # ""
           /\ \E k \in TitleLines :
                 startsWith(bulletStripped(proj.projectLines[k]), data.projects[j].title)
SectionWithoutTitleGivesNone ==
  /\ rpc = "done"
  /\ proj.found
  /\ Len(proj.projectLines) > 0
  /\ TitleLines = {}
  /\ data.projects = <<>>


----------------------------------------------------------------------------
(* Properties of convertHTMLToTemplate: the stages                         *)

\* The number of occurrences of tok in s.
Count(s, tok) == Cardinality({i \in 0..(Len(s) - Len(tok)) : startsWithAt(s, tok, i)})

\* C12: when the h1 stage detects a name (the text of the first h1, of more
\* than 1 and under 80 characters), the returned template holds no literal
\* occurrence of that name.
NameNowhereInTemplate ==
  (Returned /\ Len(origPersonName) > 1 /\ Len(origPersonName) < 80) =>
     ~includes(ret.template, origPersonName)

\* The candidates the role stage scans, and those with a role word in a
\* text of under 120 characters.
RoleCandidates(t) == matchAll(t, rolePatterns[1].re) \o matchAll(t, rolePatterns[2].re)
KeywordCandidates(t) ==
  SelectSeq(RoleCandidates(t),
            LAMBDA m : test(roleWords, textOf(G(t, m, 2))) /\ Len(textOf(G(t, m, 2))) < 120)
\* C13: when a scanned candidate has role-word text under 120 characters,
\* that element gets {{role}}, not an earlier h2 without a role word; the
\* first-h2 fallback applies only when there is no such candidate.
RoleGoesToKeywordCandidate ==
  [][cpc = "role" =>
        LET placed(m) == replaceStr(tpl, M0(tpl, m), G(tpl, m, 1) \o "{{role}}" \o G(tpl, m, 3))
            holds(candidates) ==
              Len(candidates) > 0 => \E j \in 1..Len(candidates) : tpl' = placed(candidates[j])
        IN holds(KeywordCandidates(tpl))]_vars

\* The cards the projects stage finds in t.
CardsOf(t) ==
  LET cards(projSec) == IF projSec.null THEN <<>> ELSE projectCards(projSec.inner).cards
  IN cards(findFullSection(t, projPattern))
EachOpen == "{{#each projects}}"
EachClose == "{{/each}}"
\* The text of s outside its each-block over the projects.
OutsideEach(s) ==
  LET open == indexOf(s, EachOpen)
      rest == substring(s, open, Len(s))
  IN IF open < 0 \/ indexOf(rest, EachClose) < 0 THEN s
     ELSE substring(s, 0, open)
            \o substring(rest, indexOf(rest, EachClose) + Len(EachClose), Len(rest))
\* C14: when the projects stage finds cards, by any of its three
\* strategies, the projects region then holds exactly one each-block over
\* the projects, around the template of the first card, and none of the
\* cards remains outside that block.
OneLoopReplacesCards ==
  [][cpc = "projects" =>
        LET holds(cards, region) ==
              Len(cards) > 0 =>
                 /\ ~region.null
                 /\ Count(region.full, EachOpen) = 1
                 /\ includes(region.full,
                             EachOpen \o "\n" \o cardTemplate(cards[1]) \o "\n" \o EachClose)
                 /\ \A j \in 1..Len(cards) : ~includes(OutsideEach(region.full), cards[j].full)
        IN holds(CardsOf(tpl), findFullSection(tpl', projPattern))]_vars

PlaceholderTokens ==
  {"{{name}}", "{{role}}", "{{bio}}", "{{#each (split skills", "{{#each projects}}"}
\* C15: the removal stage never removes a section that holds a placeholder
\* of an earlier stage ({{name}}, {{role}}, {{bio}}, the each-loop over the
\* skills or over the projects): every such token is still there after it.
RemovalKeepsPlaceholders ==
  [][cpc = "removable" =>
        \A token \in PlaceholderTokens : Count(tpl', token) = Count(tpl, token)]_vars

----------------------------------------------------------------------------
(* Properties of findFullSection: the depth counter and the region         *)

\* Every tag of a text, read without regard to its name:
\* <<closing?, name in lower case, ends in "/>"?>>, in order.
TagsOf(s) ==
  LET anyTag == RegExp(<<Lit("<"), Cap(1, <<Opt(<<Lit("/")>>)>>),
                         Cap(2, <<Plus(NSet(Space \cup {">", "/"}))>>),
                         Star(NSet({">"})), Lit(">")>>, FALSE)
      hits == matchAll(s, anyTag)
  IN [j \in 1..Len(hits) |->
        <<G(s, hits[j], 1) = "/", toLowerCase(G(s, hits[j], 2)), endsWith(M0(s, hits[j]), "/>")>>]
\* What the tags of a text add to the depth of an element called name.
DepthChange(s, name) ==
  LET tags == TagsOf(s)
      mine == {j \in 1..Len(tags) : tags[j][2] = toLowerCase(name) /\ ~tags[j][3]}
  IN Cardinality({j \in mine : ~tags[j][1]}) - Cardinality({j \in mine : tags[j][1]})

\* C25: during the scan the depth changes only on the opening tags that are
\* not self-closing (+1) and on the closing tags (-1) of the opener's tag
\* name, compared without regard to case; self-closing forms of the name and
\* tags of any other name, also of a name that starts with it, leave it as
\* it is.  Over one turn of the loop the depth moves by what the tags of the
\* text read in that turn add up to, and the region is returned when that
\* brings it to 0.
DepthFollowsOwnTags ==
  [][find.pc = "scan" =>
       /\ find'.pc = "scan" =>
            find'.depth - find.depth =
              DepthChange(substring(fsrc, find.lastIndex, find'.lastIndex), find.tagName)
       /\ (find'.pc = "done" /\ ~find'.res.null) =>
            find.depth + DepthChange(substring(fsrc, find.lastIndex, find'.res.end),
                                     find.tagName) = 0]_vars
SelfClosingAndLongerNamePassed ==
  /\ find.pc = "scan" /\ find.depth = 1
  /\ \E passed \in {substring(fsrc, find.startIdx + Len(find.openTag), find.lastIndex)} :
        /\ includes(passed, "<divx>")
        /\ endsWith(passed, "<div />")


\* C30: every region returned by findFullSection is well formed:
\* 0 <= start < end <= length of the source, full is the source text from
\* start to end, full is openTag followed by inner followed by closeTag, and
\* inside full the opening tags of the opener's name that are not
\* self-closing are as many as its closing tags.
RegionWellFormed ==
  (find.pc = "done" /\ ~find.res.null) =>
     \A r \in {find.res} :
        /\ 0 <= r.start /\ r.start < r.end /\ r.end <= Len(fsrc)
        /\ r.full = substring(fsrc, r.start, r.end)
        /\ r.full = r.openTag \o r.inner \o r.closeTag
        /\ DepthChange(r.full, tagNameOf(r.openTag)) = 0

----------------------------------------------------------------------------
(* Properties of extractResumeData: the delimiters of Go and the projects  *)

\* The lines of the located skills section, as indexes of lines.
SkillsSectionLines ==
  IF skillsIndex(lines) = -1 THEN {}
  ELSE (skillsIndex(lines) + 1)..Min(getSectionEnd(lines, skillsIndex(lines)), Len(lines))
\* The line with the line break that follows it in the text, if one does.
WithLineBreak(j) == toLowerCase(lines[j]) \o (IF j < Len(lines) THEN "\n" ELSE "")

\* C27: the Go rule takes every listed delimiter after the token as a match,
\* the newline included: when a line of a located skills section holds Go
\* followed by a comma, semicolon, pipe, bullet or line break (Go alone on
\* its own line, for example), skills contains Go.
GoBeforeEveryDelimiter ==
  (rpc = "done") =>
     \A j \in SkillsSectionLines :
        GoDelimited(WithLineBreak(j)) => "Go" \in Elems(data.skills)


\* The lines of the projects section without their bullets.
Stripped(k) == bulletStripped(proj.projectLines[k])
TitleSeparator == RegExp(<<Star(Set(Space)), Set({"|", ENDASH, EMDASH}), Star(Set(Space))>>, FALSE)
\* The title segment of a title line and the seed of its description: the
\* text before the first separator, and the text after it with a blank for
\* every further separator.
TitleSegment(k) == trim(substring(Stripped(k), 0, SeparatorAt(Stripped(k))))
SeedOf(k) ==
  trim(replaceAll(substring(Stripped(k), SeparatorAt(Stripped(k)) + 1, Len(Stripped(k))),
                  TitleSeparator, " "))
\* The title lines T1..Tn that have a title segment, in section order.
Titled == SelectSeq([k \in 1..Len(proj.projectLines) |-> k],
                    LAMBDA k : k \in TitleLines /\ TitleSegment(k) # "")
\* The lines that follow the title line k up to the next title line.
Following(k) ==
  {j \in (k + 1)..Len(proj.projectLines) : \A t \in TitleLines : t <= k \/ t > j}
\* What a line adds to a description: its text without the links, if that
\* has more than 5 characters.
DescriptionText(j) ==
  trim(replaceAll(Stripped(j),
                  RegExp(<<Lit("http"), Opt(<<Lit("s")>>), Lit("://"), Plus(NSet(Space \cup {")"}))>>, FALSE),
                  ""))
DescriptionParts(k) ==
  (IF SeedOf(k) = "" THEN <<>> ELSE <<SeedOf(k)>>)
    \o SelectSeq([j \in 1..Len(proj.projectLines) |-> IF j \in Following(k) THEN DescriptionText(j) ELSE ""],
                 LAMBDA d : Len(d) > 5)

\* C24: the projects follow the order of the title lines: with T1..Tn the
\* title lines that have a title segment, in section order, the output is
\* the first min(n, 5) projects in that order; the description of the k-th
\* is built from the seed of Tk and the lines between Tk and the next title
\* line only; the last open project is included; the lines before T1 are
\* discarded.
ProjectsFollowTitleLines ==
  (rpc = "done") =>
     \A titled \in {Titled} :
        /\ Len(data.projects) = Min(Len(titled), 5)
        /\ \A k \in 1..Len(data.projects) :
              /\ data.projects[k].title = TitleSegment(titled[k])
              /\ data.projects[k].description =
                    substring(join(DescriptionParts(titled[k]), ". "), 0, 300)
LineBeforeFirstTitleDiscarded ==
  /\ rpc = "done"
  /\ text = EmptyTitleSegment
  /\ ~isLikelyTitle(Stripped(1))
  /\ [k \in 1..Len(data.projects) |-> data.projects[k].title] = <<"Alpha App", "Beta Tool">>
  /\ data.projects[1].description = "Go. Developed a task app."
  /\ data.projects[2].description = "Created the thing."

\* The title lines whose title segment is empty.
Untitled == {k \in TitleLines : TitleSegment(k) = ""}
\* C29: every returned project has a title; a title line whose first
\* segment is empty gives no project, and the description lines that follow
\* it belong to no other project: a returned description holds such a line
\* only if the same text also follows that project's own title line.
EveryProjectTitled ==
  (rpc = "done") =>
     \A titled \in {Titled} :
        /\ \A k \in 1..Len(data.projects) : data.projects[k].title # ""
        /\ Len(data.projects) <= Len(titled)
        /\ \A u \in Untitled, j \in 1..Len(proj.projectLines), k \in 1..Len(data.projects) :
              (j \in Following(u) /\ Len(DescriptionText(j)) > 5
                 /\ includes(data.projects[k].description, DescriptionText(j))) =>
                 \E i \in Following(titled[k]) : DescriptionText(i) = DescriptionText(j)
UntitledProjectDropped ==
  /\ rpc = "done"
  /\ Untitled # {}
  /\ \E u \in Untitled : \E j \in Following(u) : DescriptionText(j) = "Built a scalable store."
  /\ Len(data.projects) = 2
  /\ \A k \in 1..Len(data.projects) : ~includes(data.projects[k].description, "scalable store")

----------------------------------------------------------------------------
(* Properties of convertHTMLToTemplate: removal, the stylesheet link, the  *)
(* detected regions                                                        *)

\* The places of t where one of the removable patterns matches, with the
\* pattern, and the region that opens there.
RemovableLeft(t) ==
  UNION {{<<k, m.index>> : m \in Elems(matchAll(t, removablePatterns[k]))} :
           k \in 1..Len(removablePatterns)}
RegionAt(t, at) == findFullSection(substring(t, at[2], Len(t)), removablePatterns[at[1]])

\* C23: after the removal stage no balanced section or div remains whose id
\* or class holds an experience, writing/blog, testimonial or
\* education/certification keyword and that holds no placeholder, also when
\* the document has several such sections of one keyword group (an
\* experience section and a career section, for example).
NoRemovableSectionLeft ==
  (cpc = "nav") =>
     \A at \in RemovableLeft(tpl) :
        \A region \in {RegionAt(tpl, at)} : region.null \/ includes(region.full, "{{")


LocalLink == "<link rel=\"stylesheet\" href=\"style.css\">"
\* C26: the link to the local stylesheet is injected only after the scripts
\* and stylesheets are stripped and the relative URLs are rewritten, and
\* once per call: none of those three stages adds it, the stage after them
\* adds one, and the template then holds it once, its href the relative
\* style.css, where neither the stripping nor the rewriting reaches it.
CssLinkInjectedOnce ==
  [][/\ cpc \in {"scripts", "stylesheets", "urls"} =>
           Count(tpl', LocalLink) <= Count(tpl, LocalLink)
     /\ cpc = "css" =>
           /\ Count(tpl', LocalLink) = Count(tpl, LocalLink) + 1
           /\ Count(tpl', LocalLink) = 1
           /\ Count(tpl', "style.css") = 1
           /\ Len(tpl') = Len(tpl) + Len(LocalLink) + 1]_vars
LocalLinkBesideRewrittenUrl ==
  /\ cpc = "h1"
  /\ html = Page
  /\ includes(tpl, LocalLink \o "\n</head>")
  /\ ~includes(tpl, "a.css") /\ ~includes(tpl, "<style")
  /\ includes(tpl, "href=\"https://ex.com/shop/\"")


\* C28: every region that the returned detectedSections flags has its
\* placeholder in the returned template: name {{name}}, role {{role}}, bio
\* {{bio}}, skills an each-loop over the skills, projects an each-loop over
\* the projects, email {{email}}; also for a document without a lower-case
\* </body> tag and when a later stage removed or rewrote the region.
FlaggedRegionsHavePlaceholders ==
  Returned =>
     \A flagged \in {ret.detectedSections}, t \in {ret.template} :
        /\ flagged.name => includes(t, "{{name}}")
        /\ flagged.role => includes(t, "{{role}}")
        /\ flagged.bio => includes(t, "{{bio}}")
        /\ flagged.skills => includes(t, "{{#each (split skills")
        /\ flagged.projects => includes(t, "{{#each projects}}")
        /\ flagged.email => includes(t, "{{email}}")

----------------------------------------------------------------------------
(* Properties of calls in sequence and of getCompiledTemplate              *)

\* C21: extractResumeData and convertHTMLToTemplate are deterministic and
\* carry no state from call to call: two calls with the same arguments
\* return equal results, whatever calls were made before or between them.
SameArgumentsSameResult ==
  \A i, j \in 1..Len(returned) :
     (returned[i].fn = returned[j].fn /\ returned[i].args = returned[j].args) =>
        returned[i].result = returned[j].result
RepeatedAfterOtherCall ==
  /\ Len(returned) = 3
  /\ returned[1].fn = "extractResumeData" /\ returned[1].args = <<ProjectExample>>
  /\ returned[2].fn = "convertHTMLToTemplate"
  /\ returned[3].fn = "extractResumeData" /\ returned[3].args = <<ProjectExample>>
  /\ Len(returned[3].result.projects) = 2
  /\ returned[3].result = returned[1].result

\* The calls of getCompiledTemplate made so far for a name.
CallsFor(name) ==
  {c \in 1..MaxRequests : pending[c].pc # "idle" /\ pending[c].templateName = name}
\* C22: after any sequence and any interleaving of calls the cache holds no
\* entry whose key begins with cloned-: every call for a cloned template
\* reads its files again, and a built-in template is read once and served
\* from the cache afterwards.
ClonedNeverCachedBuiltInReadOnce ==
  /\ \A key \in DOMAIN templateCache : ~startsWith(key, "cloned-")
  /\ \A name \in OnDisk :
        IF startsWith(name, "cloned-")
        THEN reads[name] = Cardinality(CallsFor(name))
        ELSE reads[name] <= 1

============================================================================
